---- MODULE Spec2Model ----
(***************************************************************************)
(* Connector pool lifecycle of Anko (src-tauri/src/db): the PostgreSQL     *)
(* connector's pool map (one sqlx pool per database, last-used timestamp   *)
(* per entry), its background eviction task, get_pool (hit and miss),      *)
(* close, and the MySQL connector's single pool; execute_with_context and  *)
(* execute; the connection registry of AppState; the table-name extractor  *)
(* and the value coercion of the connectors.                               *)
(*                                                                         *)
(* Time is in seconds.  A sqlx pool is identified by its index in          *)
(* sqlx_pools; "closed" there means Pool::close() has been called on it.   *)
(***************************************************************************)
EXTENDS Integers, FiniteSets, Sequences, TLC

VARIABLES
    driver,            \* config.driver of the connector under study
    default_database,  \* PostgresConnector.default_database
    pools,             \* PostgresConnector.pools: database name -> PoolEntry
    sqlx_pools,        \* every sqlx pool constructed so far: [database, closed]
    now,               \* the clock read by Instant::now()
    sweep_pc,          \* position of the evictor task's loop body
    sweep_now,         \* the evictor's local `now`
    to_evict,          \* the evictor's local `to_evict`
    next_tick,         \* when interval.tick() completes next
    clients,           \* per caller: position inside an operation and its locals
    close_pc,          \* position of a running close()
    close_left,        \* entries close() has still to visit
    closed,            \* some close() call has returned
    last_ret,          \* per database: pool returned by the latest finished lookup
    calls,             \* per caller: the execute_with_context call it is inside
    session,           \* per pool and physical connection: the session's context
    ident,             \* a context name handed to the context-statement builder
    built,             \* the statement the builder made of it
    run,               \* the execute call under way: statement, attempts, result
    connections,       \* AppState.connections: connection id -> connector
    uuids,             \* the ids Uuid::new_v4 has handed out
    cmd,               \* the latest command on the registry and what it returned
    statement,         \* a statement handed to extract_table_from_select
    table,             \* what extract_table_from_select returned for it
    cell,              \* a column value as the driver holds it
    value,             \* the JSON value coercion made of it
    catalog,           \* the rows a catalog statement of a schema operation returned
    listing,           \* what the schema operation made of them
    history,           \* the query_history table and the storage's clock
    locks,             \* the locks of a PostgresConnector and the tasks that take them
    workspaces         \* the workspaces and workspace_connections tables

\* the pool registry of a connector
pool_vars == <<driver, default_database, pools, sqlx_pools, now, sweep_pc, sweep_now,
               to_evict, next_tick, clients, close_pc, close_left, closed, last_ret>>

\* statement execution and the context-statement builder
exec_vars == <<calls, session, ident, built>>

\* execute, the registry, and the pure functions
side_vars == <<run, connections, uuids, cmd, statement, table, cell, value>>

\* the schema operations and the application's storage
store_vars == <<catalog, listing, history, locks, workspaces>>

vars == <<pool_vars, exec_vars, side_vars, store_vars>>

----------------------------------------------------------------------------
(* Bounds of the model *)

MaxTime == 450
TimeStep == 150
MaxPools == 3
MaxConns == 2
MaxNameLen == 3

(* Program constants *)

POOL_TTL == 300
EVICTION_CHECK_INTERVAL == 60

NoDatabase == "<none>"
ConfigDatabases == {NoDatabase, "postgres"}
Databases == {"postgres", "app"}
Clients == {"c1", "c2"}
Drivers == {"MySQL", "PostgreSQL"}
NoPool == 0

\* `context` is an Option<&str>: None is the empty sequence, Some(name) the
\* one-element sequence; a session's context is None until a context
\* statement has run on it
NoContext == <<>>
Some(name) == <<name>>

\* no result set
NoRows == [columns |-> <<>>, rows |-> <<>>]

\* no QueryResult and no error
NoResult == [status |-> "none", error |-> "none", columns |-> <<>>, rows |-> <<>>,
             affected_rows |-> 0]

\* no execute call is under way
NoRun == [pc |-> "idle", op |-> "none", query |-> <<>>, attempts |-> <<>>,
          lookups |-> <<>>, fetched |-> NoRows, result |-> NoResult]

\* no command has been issued on the registry
NoReturn == [status |-> "none", error |-> "none", id |-> 0]

\* no command has been called
NoCommand == [op |-> "none", id |-> 0, attempts |-> <<>>, calls |-> <<>>, ret |-> NoReturn]

\* the tasks that take the locks of a PostgresConnector: two callers of
\* get_pool, the evictor, and close()
LockClients == {"c1", "c2"}
Tasks == LockClients \cup {"sweep", "close"}

\* every task at rest, both locks free, the default entry in the map
NoLocks ==
    [pc |-> [t \in Tasks |-> "idle"],
     db |-> [c \in LockClients |-> "postgres"],
     queue |-> <<>>,
     readers |-> {},
     writer |-> "none",
     last_used |-> [d \in Databases |-> "none"],
     entries |-> {"postgres"},
     scan |-> {},
     evict |-> {},
     left |-> {}]

\* the storage before initialize_schema: no table, nothing returned yet
NoWorkspaces ==
    [initialized |-> FALSE,
     rows |-> <<>>,
     connections |-> {},
     used |-> {},
     ret |-> [op |-> "none", id |-> "none", error |-> "none"]]

\* the days on which the storage's clock is read
Days == {0, 40, 60}

\* no catalog statement has been answered
NoCatalog == [op |-> "none", rows |-> <<>>]

\* no schema operation has returned
NoListing == [op |-> "none", items |-> <<>>]

\* no column value
NoCell == [type |-> "none", ok |-> {}, float |-> "finite", bytes |-> <<>>]

\* serde_json::Value::Null
JsonNull == [json |-> "null", from |-> "none", text |-> <<>>]

\* no JSON value has been made yet
NoValue == [json |-> "none", from |-> "none", text |-> <<>>]

\* a caller that is not inside execute_with_context
NoCall == [pc |-> "idle", query |-> <<>>, database |-> NoDatabase, context |-> NoContext,
           pool |-> NoPool, executed_query |-> <<>>, sent |-> <<>>, result |-> "none",
           original_query |-> NoContext, result_executed_query |-> NoContext]

----------------------------------------------------------------------------
(* Helpers *)

\* config.database.unwrap_or("postgres")
DefaultDatabase(cfg) == IF cfg = NoDatabase THEN "postgres" ELSE cfg

\* Instant::duration_since: saturates to zero when `earlier` is later
duration_since(later, earlier) == IF later >= earlier THEN later - earlier ELSE 0

\* PoolEntry { pool, last_used }
PoolEntry(p, t) == [pool |-> p, last_used |-> t]

\* HashMap::insert
MapInsert(m, d, e) == [x \in DOMAIN m \cup {d} |-> IF x = d THEN e ELSE m[x]]

\* HashMap::remove
MapRemove(m, d) == [x \in DOMAIN m \ {d} |-> m[x]]

\* PgPoolOptions::connect / MySqlPoolOptions::connect, on success
PoolConnect(ps, d) == Append(ps, [database |-> d, closed |-> FALSE])

\* a close that flips the pool's closed flag
PoolClose_Toggle(ps, p) == [ps EXCEPT ![p].closed = ~ps[p].closed]

\* Pool::close
PoolClose(ps, p) == [ps EXCEPT ![p].closed = TRUE]

----------------------------------------------------------------------------
(* Statement texts: a text is a sequence of one-character strings *)

\* the character U+0060, which a TLA+ string cannot hold
Backtick == "BACKTICK"

DoubleQuote == "\""

\* characters a context name is made of
Alphabet == {"a", ";", Backtick, DoubleQuote}

\* the context names of at most n characters
Names(n) == UNION {[1..k -> Alphabet] : k \in 0..n}

UseKeyword == <<"U", "S", "E", " ">>

SetSearchPathKeyword ==
    <<"S", "E", "T", " ", "s", "e", "a", "r", "c", "h", "_", "p", "a", "t", "h", " ",
      "T", "O", " ">>

\* the "{};\n{}" between the context statement and the caller's statement
StatementSeparator == <<";", "\n">>

\* str::replace of a one-character pattern
RECURSIVE replace(_, _, _)
replace(s, from, to) ==
    IF s = <<>> THEN <<>>
    ELSE (IF Head(s) = from THEN to ELSE <<Head(s)>>) \o replace(Tail(s), from, to)

\* format!("USE `{}`", db)
use_query(db) == UseKeyword \o <<Backtick>> \o db \o <<Backtick>>

\* a quoting that leaves inner double quotes as they are
quoted_schema_Raw(s) == <<DoubleQuote>> \o s \o <<DoubleQuote>>

\* format!("\"{}\"", s.replace("\"", "\"\""))
quoted_schema(s) ==
    <<DoubleQuote>> \o replace(s, DoubleQuote, <<DoubleQuote, DoubleQuote>>) \o <<DoubleQuote>>

\* format!("SET search_path TO {}", quoted_schema)
set_path_query(s) == SetSearchPathKeyword \o quoted_schema(s)

\* the statement that switches a session to context `name`
ContextStatement(drv, name) ==
    IF drv = "MySQL" THEN use_query(name) ELSE set_path_query(name)

\* an executed_query that leaves the context statement out
executed_query_Bare(drv, context, query) == query

\* the executed_query local of execute_with_context
executed_query(drv, context, query) ==
    IF context = NoContext THEN query
    ELSE ContextStatement(drv, context[1]) \o StatementSeparator \o query

----------------------------------------------------------------------------
(* str operations of the extractor, on texts of ASCII characters (for which
   to_uppercase keeps every character's position) *)

LowerLetters == <<"a", "b", "c", "d", "e", "f", "g", "h", "i", "j", "k", "l", "m", "n", "o", "p", "q", "r", "s", "t", "u", "v", "w", "x", "y", "z">>
UpperLetters == <<"A", "B", "C", "D", "E", "F", "G", "H", "I", "J", "K", "L", "M", "N", "O", "P", "Q", "R", "S", "T", "U", "V", "W", "X", "Y", "Z">>

\* char::to_ascii_uppercase
UpperChar(ch) ==
    IF \E i \in 1..Len(LowerLetters) : LowerLetters[i] = ch
    THEN UpperLetters[CHOOSE i \in 1..Len(LowerLetters) : LowerLetters[i] = ch]
    ELSE ch

\* str::to_uppercase
to_uppercase(s) == [i \in 1..Len(s) |-> UpperChar(s[i])]

\* char::is_whitespace
Whitespace == {" ", "\n", "\t"}

\* str::find: the position of the first occurrence of pat, 0 when there is none
find(s, pat) ==
    LET hits == {i \in 1..(Len(s) - Len(pat) + 1) : SubSeq(s, i, i + Len(pat) - 1) = pat} IN
    IF hits = {} THEN 0 ELSE CHOOSE i \in hits : \A j \in hits : i <= j

\* str::starts_with
starts_with(s, pat) == Len(s) >= Len(pat) /\ SubSeq(s, 1, Len(pat)) = pat

\* str::trim_start_matches over a set of characters
RECURSIVE trim_start_in(_, _)
trim_start_in(s, chars) ==
    IF s # <<>> /\ Head(s) \in chars THEN trim_start_in(Tail(s), chars) ELSE s

\* str::trim_end_matches over a set of characters
RECURSIVE trim_end_in(_, _)
trim_end_in(s, chars) ==
    IF s # <<>> /\ s[Len(s)] \in chars THEN trim_end_in(SubSeq(s, 1, Len(s) - 1), chars) ELSE s

\* str::trim_start
trim_start(s) == trim_start_in(s, Whitespace)

\* str::trim
trim(s) == trim_end_in(trim_start_in(s, Whitespace), Whitespace)

\* str::trim_matches(char)
trim_matches(s, ch) == trim_end_in(trim_start_in(s, {ch}), {ch})

\* str::contains(char)
contains(s, ch) == \E i \in 1..Len(s) : s[i] = ch

\* str::split(ch).next_back(): what follows the last ch
split_next_back(s, ch) ==
    LET dots == {i \in 1..Len(s) : s[i] = ch} IN
    IF dots = {} THEN s
    ELSE SubSeq(s, (CHOOSE i \in dots : \A j \in dots : j <= i) + 1, Len(s))

FromKeyword == <<" ", "F", "R", "O", "M", " ">>

\* a list of end keywords without the JOIN family
end_keywords_NoJoin ==
    {<<" ", "W", "H", "E", "R", "E", " ">>,
     <<" ", "O", "R", "D", "E", "R", " ">>,
     <<" ", "L", "I", "M", "I", "T", " ">>,
     <<" ", "G", "R", "O", "U", "P", " ">>,
     <<" ", "H", "A", "V", "I", "N", "G", " ">>,
     <<";">>}

\* the end_keywords array of extract_table_from_select
end_keywords ==
    {<<" ", "W", "H", "E", "R", "E", " ">>,
     <<" ", "O", "R", "D", "E", "R", " ">>,
     <<" ", "L", "I", "M", "I", "T", " ">>,
     <<" ", "G", "R", "O", "U", "P", " ">>,
     <<" ", "H", "A", "V", "I", "N", "G", " ">>,
     <<" ", "J", "O", "I", "N", " ">>,
     <<" ", "L", "E", "F", "T", " ">>,
     <<" ", "R", "I", "G", "H", "T", " ">>,
     <<" ", "I", "N", "N", "E", "R", " ">>,
     <<" ", "O", "U", "T", "E", "R", " ">>,
     <<";">>}

\* extract_table_from_select
extract_table_from_select(query) ==
    LET upper == to_uppercase(query)
        from_pos == find(upper, FromKeyword)
        after_from == trim_start(SubSeq(query, from_pos + Len(FromKeyword), Len(query)))
        upper_after == to_uppercase(after_from)
        ends == {find(upper_after, kw) : kw \in end_keywords} \ {0}
        end_pos == IF ends = {} THEN Len(after_from) + 1
                   ELSE CHOOSE i \in ends : \A j \in ends : i <= j
        table_part == trim(SubSeq(after_from, 1, end_pos - 1))
        table_name == IF contains(table_part, ".") THEN split_next_back(table_part, ".")
                      ELSE table_part
        cleaned == trim_matches(trim_matches(trim_matches(table_name, Backtick), DoubleQuote), "'")
    IN
    IF from_pos = 0 THEN NoContext
    ELSE IF cleaned = <<>> THEN NoContext
    ELSE Some(cleaned)

IdleClient == [pc |-> "idle", db |-> NoDatabase, pool |-> NoPool, ts |-> 0, res |-> "none"]

\* the map's write lock is held by the evictor from SweepLock to SweepUnlock
WriteLocked == sweep_pc = "evicting"

\* the map's read lock is held by close() while it closes the pools
ReadLocked == close_pc = "closing"

----------------------------------------------------------------------------
(* Construction *)

PgInit(cfg) ==
    /\ driver = "PostgreSQL"
    /\ default_database = DefaultDatabase(cfg)
    /\ sqlx_pools = PoolConnect(<<>>, DefaultDatabase(cfg))
    /\ pools = MapInsert(<<>>, DefaultDatabase(cfg), PoolEntry(1, 0))

MyInit ==
    /\ driver = "MySQL"
    /\ default_database = NoDatabase
    /\ sqlx_pools = PoolConnect(<<>>, NoDatabase)
    /\ pools = <<>>

\* no call is under way, every session is as the server opened it
ExecInit ==
    /\ calls = [c \in Clients |-> NoCall]
    /\ session = [p \in 1..MaxPools |-> [k \in 1..MaxConns |-> NoContext]]
    /\ ident = <<>>
    /\ built = <<>>

\* no execute call, an empty registry, nothing handed to the pure functions
SideInit ==
    /\ run = NoRun
    /\ connections = <<>>
    /\ uuids = {}
    /\ cmd = NoCommand
    /\ statement = <<>>
    /\ table = NoContext
    /\ cell = NoCell
    /\ value = NoValue

\* a connector as connect made it, nobody using it yet
PoolInit ==
    /\ \/ \E cfg \in ConfigDatabases : PgInit(cfg)
       \/ MyInit
    /\ now = 0
    /\ sweep_pc = "sleep"
    /\ sweep_now = 0
    /\ to_evict = {}
    /\ next_tick = 0
    /\ clients = [c \in Clients |-> IdleClient]
    /\ close_pc = "idle"
    /\ close_left = {}
    /\ closed = FALSE
    /\ last_ret = [d \in Databases |-> NoPool]

\* no schema operation has run
StoreInit ==
    /\ catalog = NoCatalog
    /\ listing = NoListing
    /\ history = [clock |-> 0, entries |-> [d \in Days |-> 0]]
    /\ locks = NoLocks
    /\ workspaces = NoWorkspaces

Init ==
    /\ PoolInit
    /\ ExecInit
    /\ SideInit
    /\ StoreInit

----------------------------------------------------------------------------
(* The clock *)

Advance ==
    /\ driver = "PostgreSQL"
    /\ now + TimeStep <= MaxTime
    /\ ~(sweep_pc = "sleep" /\ now >= next_tick)
    /\ now' = now + TimeStep
    /\ UNCHANGED <<exec_vars, side_vars, store_vars, driver, default_database, pools, sqlx_pools, sweep_pc, sweep_now,
                   to_evict, next_tick, clients, close_pc, close_left, closed, last_ret>>

----------------------------------------------------------------------------
(* start_pool_evictor: the spawned loop *)

\* mutant: the operands of duration_since swapped
ToEvict_Swapped(m, dflt, t) ==
    {d \in DOMAIN m : d # dflt /\ duration_since(m[d].last_used, t) > POOL_TTL}

\* mutant: the default database is not skipped
ToEvict_NoDefaultCheck(m, dflt, t) ==
    {d \in DOMAIN m : duration_since(t, m[d].last_used) > POOL_TTL}

\* mutant: an entry idle for exactly POOL_TTL is taken too
ToEvict_AtLeast(m, dflt, t) ==
    {d \in DOMAIN m : d # dflt /\ duration_since(t, m[d].last_used) >= POOL_TTL}

\* the databases the collect loop pushes onto to_evict
ToEvict(m, dflt, t) ==
    {d \in DOMAIN m : d # dflt /\ duration_since(t, m[d].last_used) > POOL_TTL}

\* interval.tick().await; let now = Instant::now();
SweepWake ==
    /\ driver = "PostgreSQL"
    /\ sweep_pc = "sleep"
    /\ now >= next_tick
    /\ sweep_pc' = "sampled"
    /\ sweep_now' = now
    /\ next_tick' = next_tick + EVICTION_CHECK_INTERVAL
    /\ UNCHANGED <<exec_vars, side_vars, store_vars, driver, default_database, pools, sqlx_pools, now, to_evict,
                   clients, close_pc, close_left, closed, last_ret>>

\* pools.write().await and the collect loop
SweepLock ==
    /\ sweep_pc = "sampled"
    /\ ~ReadLocked
    /\ sweep_pc' = "evicting"
    /\ to_evict' = ToEvict(pools, default_database, sweep_now)
    /\ UNCHANGED <<exec_vars, side_vars, store_vars, driver, default_database, pools, sqlx_pools, now, sweep_now,
                   next_tick, clients, close_pc, close_left, closed, last_ret>>

\* one iteration of the evict loop: pools_guard.remove(database); entry.pool.close().await
SweepEvict(d) ==
    /\ sweep_pc = "evicting"
    /\ d \in to_evict
    /\ pools' = MapRemove(pools, d)
    /\ sqlx_pools' = PoolClose(sqlx_pools, pools[d].pool)
    /\ to_evict' = to_evict \ {d}
    /\ last_ret' = [last_ret EXCEPT ![d] = NoPool]
    /\ UNCHANGED <<exec_vars, side_vars, store_vars, driver, default_database, now, sweep_pc, sweep_now, next_tick,
                   clients, close_pc, close_left, closed>>

\* end of the loop body: pools_guard is dropped
SweepUnlock ==
    /\ sweep_pc = "evicting"
    /\ to_evict = {}
    /\ sweep_pc' = "sleep"
    /\ sweep_now' = 0
    /\ UNCHANGED <<exec_vars, side_vars, store_vars, driver, default_database, pools, sqlx_pools, now, to_evict,
                   next_tick, clients, close_pc, close_left, closed, last_ret>>

----------------------------------------------------------------------------
(* get_pool and the operation that called it *)

\* mutant: the hit path does not refresh the timestamp
Touch_Stale(m, d, t) == m

\* *entry.last_used.write().await = Instant::now()
Touch(m, d, t) == [m EXCEPT ![d].last_used = t]

\* the fast path: entry found under the read lock
GetPoolHit(c, d) ==
    /\ driver = "PostgreSQL"
    /\ clients[c].pc = "idle"
    /\ ~WriteLocked
    /\ d \in DOMAIN pools
    /\ pools' = Touch(pools, d, now)
    /\ clients' = [clients EXCEPT ![c] =
                     [pc |-> "running", db |-> d, pool |-> pools[d].pool,
                      ts |-> 0, res |-> "none"]]
    /\ last_ret' = [last_ret EXCEPT ![d] = pools[d].pool]
    /\ UNCHANGED <<exec_vars, side_vars, store_vars, driver, default_database, sqlx_pools, now, sweep_pc, sweep_now,
                   to_evict, next_tick, close_pc, close_left, closed>>

\* no entry found: the read lock is dropped and a pool is about to be constructed
GetPoolMiss(c, d) ==
    /\ driver = "PostgreSQL"
    /\ clients[c].pc = "idle"
    /\ ~WriteLocked
    /\ d \notin DOMAIN pools
    /\ clients' = [clients EXCEPT ![c] =
                     [pc |-> "connecting", db |-> d, pool |-> NoPool,
                      ts |-> 0, res |-> "none"]]
    /\ UNCHANGED <<exec_vars, side_vars, store_vars, driver, default_database, pools, sqlx_pools, now, sweep_pc,
                   sweep_now, to_evict, next_tick, close_pc, close_left, closed,
                   last_ret>>

\* PgPoolOptions::connect succeeded; the entry is built with Instant::now()
ConnectOk(c) ==
    /\ clients[c].pc = "connecting"
    /\ Len(sqlx_pools) < MaxPools
    /\ sqlx_pools' = PoolConnect(sqlx_pools, clients[c].db)
    /\ clients' = [clients EXCEPT ![c].pc = "inserting",
                                  ![c].pool = Len(sqlx_pools) + 1,
                                  ![c].ts = now]
    /\ UNCHANGED <<exec_vars, side_vars, store_vars, driver, default_database, pools, now, sweep_pc, sweep_now,
                   to_evict, next_tick, close_pc, close_left, closed, last_ret>>

\* a failed construction that leaves a dead entry in the map
ConnectFail_Cached(c) ==
    /\ clients[c].pc = "connecting"
    /\ ~WriteLocked
    /\ ~ReadLocked
    /\ pools' = MapInsert(pools, clients[c].db, PoolEntry(NoPool, now))
    /\ clients' = [clients EXCEPT ![c] = [IdleClient EXCEPT !.res = "err"]]
    /\ UNCHANGED <<exec_vars, side_vars, store_vars, driver, default_database, sqlx_pools, now, sweep_pc,
                   sweep_now, to_evict, next_tick, close_pc, close_left, closed,
                   last_ret>>

\* PgPoolOptions::connect failed: map_err(..)? returns the error
ConnectFail(c) ==
    /\ clients[c].pc = "connecting"
    /\ clients' = [clients EXCEPT ![c] = [IdleClient EXCEPT !.res = "err"]]
    /\ UNCHANGED <<exec_vars, side_vars, store_vars, driver, default_database, pools, sqlx_pools, now, sweep_pc,
                   sweep_now, to_evict, next_tick, close_pc, close_left, closed,
                   last_ret>>

\* mutant: an entry already present is kept (insert-if-absent)
InsertEntry_IfAbsent(m, d, p, t) ==
    IF d \in DOMAIN m THEN m ELSE MapInsert(m, d, PoolEntry(p, t))

\* the entry the miss path stores
InsertEntry(m, d, p, t) == MapInsert(m, d, PoolEntry(p, t))

\* pools.write().await; pools.insert(database, entry); Ok(pool)
Insert(c) ==
    /\ clients[c].pc = "inserting"
    /\ ~WriteLocked
    /\ ~ReadLocked
    /\ pools' = InsertEntry(pools, clients[c].db, clients[c].pool, clients[c].ts)
    /\ clients' = [clients EXCEPT ![c].pc = "running", ![c].ts = 0]
    /\ last_ret' = [last_ret EXCEPT ![clients[c].db] = clients[c].pool]
    /\ UNCHANGED <<exec_vars, side_vars, store_vars, driver, default_database, sqlx_pools, now, sweep_pc, sweep_now,
                   to_evict, next_tick, close_pc, close_left, closed>>

\* outcomes of running a statement on a pool: a closed pool refuses (PoolClosed)
RunOutcomes(ps, p) == IF ps[p].closed THEN {"err"} ELSE {"ok", "err"}

\* the caller's statement on the pool it was handed (sqlx::query(..).fetch_all(&pool))
RunOnPool(c) ==
    /\ driver = "PostgreSQL"
    /\ clients[c].pc = "running"
    /\ \E r \in RunOutcomes(sqlx_pools, clients[c].pool) :
         clients' = [clients EXCEPT ![c] = [IdleClient EXCEPT !.res = r]]
    /\ UNCHANGED <<exec_vars, side_vars, store_vars, driver, default_database, pools, sqlx_pools, now, sweep_pc,
                   sweep_now, to_evict, next_tick, close_pc, close_left, closed,
                   last_ret>>

----------------------------------------------------------------------------
(* PostgresConnector::close *)

\* mutant: close() stops after the first entry
CloseTargets_First(m) == IF DOMAIN m = {} THEN {} ELSE {CHOOSE d \in DOMAIN m : TRUE}

\* the pools close() visits: pools.values()
CloseTargets(m) == DOMAIN m

\* let pools = self.pools.read().await;
CloseBegin ==
    /\ driver = "PostgreSQL"
    /\ close_pc = "idle"
    /\ ~WriteLocked
    /\ close_pc' = "closing"
    /\ close_left' = CloseTargets(pools)
    /\ UNCHANGED <<exec_vars, side_vars, store_vars, driver, default_database, pools, sqlx_pools, now, sweep_pc,
                   sweep_now, to_evict, next_tick, clients, closed, last_ret>>

\* entry.pool.close().await for one entry
CloseOne(d) ==
    /\ close_pc = "closing"
    /\ d \in close_left
    /\ sqlx_pools' = PoolClose(sqlx_pools, pools[d].pool)
    /\ close_left' = close_left \ {d}
    /\ UNCHANGED <<exec_vars, side_vars, store_vars, driver, default_database, pools, now, sweep_pc, sweep_now,
                   to_evict, next_tick, clients, close_pc, closed, last_ret>>

\* Ok(()): the read guard is dropped
CloseReturn ==
    /\ close_pc = "closing"
    /\ close_left = {}
    /\ close_pc' = "idle"
    /\ closed' = TRUE
    /\ UNCHANGED <<exec_vars, side_vars, store_vars, driver, default_database, pools, sqlx_pools, now, sweep_pc,
                   sweep_now, to_evict, next_tick, clients, close_left, last_ret>>

----------------------------------------------------------------------------
(* MySqlConnector: one pool, sqlx_pools[1] *)

\* an operation that builds a pool of its own when the single pool is shut
MyExecute_NewPool(c) ==
    /\ driver = "MySQL"
    /\ Len(sqlx_pools) < MaxPools
    /\ sqlx_pools' = IF sqlx_pools[1].closed THEN PoolConnect(sqlx_pools, NoDatabase)
                     ELSE sqlx_pools
    /\ \E r \in {"ok", "err"} :
         clients' = [clients EXCEPT ![c] = [IdleClient EXCEPT !.res = r]]
    /\ UNCHANGED <<exec_vars, side_vars, store_vars, driver, default_database, pools, now, sweep_pc,
                   sweep_now, to_evict, next_tick, close_pc, close_left, closed,
                   last_ret>>

\* a statement on self.pool
MyExecute(c) ==
    /\ driver = "MySQL"
    /\ \E r \in RunOutcomes(sqlx_pools, 1) :
         clients' = [clients EXCEPT ![c] = [IdleClient EXCEPT !.res = r]]
    /\ UNCHANGED <<exec_vars, side_vars, store_vars, driver, default_database, pools, sqlx_pools, now, sweep_pc,
                   sweep_now, to_evict, next_tick, close_pc, close_left, closed,
                   last_ret>>

\* self.pool.close().await; Ok(())
MyClose ==
    /\ driver = "MySQL"
    /\ sqlx_pools' = PoolClose(sqlx_pools, 1)
    /\ closed' = TRUE
    /\ UNCHANGED <<exec_vars, side_vars, store_vars, driver, default_database, pools, now, sweep_pc, sweep_now,
                   to_evict, next_tick, clients, close_pc, close_left, last_ret>>

----------------------------------------------------------------------------

Sweep == SweepWake \/ SweepLock \/ (\E d \in Databases : SweepEvict(d)) \/ SweepUnlock

LookupBy(c) ==
    \/ \E d \in Databases : GetPoolHit(c, d)
    \/ \E d \in Databases : GetPoolMiss(c, d)
    \/ ConnectOk(c)
    \/ ConnectFail(c)
    \/ Insert(c)
    \/ RunOnPool(c)

Lookup == \E c \in Clients : LookupBy(c)

Close == CloseBegin \/ (\E d \in Databases : CloseOne(d)) \/ CloseReturn

MySql == (\E c \in Clients : MyExecute(c)) \/ MyClose

Next == Advance \/ Sweep \/ Lookup \/ Close \/ MySql

Spec == Init /\ [][Next]_vars

----------------------------------------------------------------------------
(* One PostgreSQL connector with a single caller, under the scheduling the   *)
(* runtime gives: the clock advances, the interval timer fires, the         *)
(* evictor's write-lock request is eventually granted (the tokio RwLock is  *)
(* fair), and every Pool::close() started by the evictor or by close()      *)
(* completes.                                                               *)

LiveClient == "c1"

InitLive == Init /\ driver = "PostgreSQL"

NextLive == Advance \/ Sweep \/ LookupBy(LiveClient) \/ Close

Fairness ==
    /\ WF_vars(Advance)
    /\ WF_vars(SweepWake)
    /\ SF_vars(SweepLock)
    /\ WF_vars(\E d \in Databases : SweepEvict(d))
    /\ WF_vars(SweepUnlock)
    /\ WF_vars(\E d \in Databases : CloseOne(d))
    /\ WF_vars(CloseReturn)

SpecLive == InitLive /\ [][NextLive]_vars /\ Fairness

----------------------------------------------------------------------------
(* The context-statement builder on its own: a name comes in as `context`,
   the connector formats the statement it will send *)

TakeName(name) ==
    /\ ident' = name
    /\ built' = <<>>
    /\ UNCHANGED <<pool_vars, side_vars, store_vars, calls, session>>

BuildContextStatement ==
    /\ built = <<>>
    /\ built' = ContextStatement(driver, ident)
    /\ UNCHANGED <<pool_vars, side_vars, store_vars, calls, session, ident>>

NextQuote == (\E name \in Names(MaxNameLen) : TakeName(name)) \/ BuildContextStatement

SpecQuote == Init /\ [][NextQuote]_vars

----------------------------------------------------------------------------
(* execute_with_context: pool selection, context statement, the caller's
   statement in two attempts, the result *)

\* the statements callers pass
Queries == {<<"S", "E", "L", "E", "C", "T", " ", "1">>, <<"D", "E", "L", "E", "T", "E">>}

\* the contexts callers pass
Contexts == {NoContext, Some(<<"a">>), Some(<<"a", DoubleQuote>>)}

\* the callers of the execution model
ExecClients == {"c1"}

\* a pool selection that ignores `database`
TargetDatabase_Default(database, dflt) == dflt

\* if let Some(db) = database { get_pool(db) } else { get_default_pool() }
TargetDatabase(database, dflt) == IF database = NoDatabase THEN dflt ELSE database

\* a context that falls back to the `database` argument
EffectiveContext_OrDatabase(database, context) ==
    IF context = NoContext /\ database # NoDatabase THEN Some(<<"a">>) ELSE context

\* the context the statement is built from: `context`, never `database`
EffectiveContext(database, context) == context

\* a context statement whose failure is not propagated
AfterContext_Ignore(r) == "fetch"

\* the `?` on the context statement: on failure the call returns the error
AfterContext(r) == IF r = "ok" THEN "fetch" ELSE "done"

\* a connection that is reset when it goes back to the pool
AfterStatement_Reset(sess, p, k) == [sess EXCEPT ![p][k] = NoContext]

\* the connection goes back to the pool as the statement left it
AfterStatement(sess, p, k) == sess

\* one statement as the server saw it: its text, the pool and connection it
\* came on, the context of that session when it arrived, and the outcome
Sent(text, p, k, r) == [text |-> text, pool |-> p, conn |-> k, ctx |-> session[p][k], ok |-> r # "err"]

\* the pool `pool` is bound to once pool selection has returned
HasPool(c) == driver = "MySQL" \/ clients[c].pc = "running"
CallPool(c) == IF driver = "MySQL" THEN 1 ELSE clients[c].pool

ExecBegin(c, q, d, x) ==
    /\ calls[c].pc \in {"idle", "done"}
    /\ calls' = [calls EXCEPT ![c] = [NoCall EXCEPT !.pc = "pool", !.query = q,
                                                    !.database = d, !.context = x]]
    /\ clients' = [clients EXCEPT ![c] = IdleClient]
    /\ UNCHANGED <<side_vars, store_vars, driver, default_database, pools, sqlx_pools, now, sweep_pc,
                   sweep_now, to_evict, next_tick, close_pc, close_left, closed, last_ret,
                   session, ident, built>>

\* get_pool for the selected database
ExecGetPool(c) ==
    /\ calls[c].pc = "pool"
    /\ clients[c].res = "none"
    /\ LET d == TargetDatabase(calls[c].database, default_database) IN
       GetPoolHit(c, d) \/ GetPoolMiss(c, d)

ExecConnect(c) ==
    /\ calls[c].pc = "pool"
    /\ ConnectOk(c) \/ ConnectFail(c)

ExecInsert(c) ==
    /\ calls[c].pc = "pool"
    /\ Insert(c)

\* get_pool(..).await? returned an error
ExecPoolFailed(c) ==
    /\ calls[c].pc = "pool"
    /\ driver = "PostgreSQL"
    /\ clients[c].pc = "idle"
    /\ clients[c].res = "err"
    /\ calls' = [calls EXCEPT ![c].pc = "done", ![c].result = "err"]
    /\ UNCHANGED <<pool_vars, side_vars, store_vars, session, ident, built>>

\* context is None: nothing is sent before the caller's statement
ExecNoContext(c) ==
    /\ calls[c].pc = "pool"
    /\ HasPool(c)
    /\ EffectiveContext(calls[c].database, calls[c].context) = NoContext
    /\ calls' = [calls EXCEPT ![c].pc = "fetch",
                              ![c].pool = CallPool(c),
                              ![c].executed_query =
                                  executed_query(driver, NoContext, calls[c].query)]
    /\ UNCHANGED <<pool_vars, side_vars, store_vars, session, ident, built>>

\* context is Some: the context statement goes to the pool, on connection k
ExecContext(c, k) ==
    /\ calls[c].pc = "pool"
    /\ HasPool(c)
    /\ LET x == EffectiveContext(calls[c].database, calls[c].context)
           p == CallPool(c)
       IN
       /\ x # NoContext
       /\ \E r \in RunOutcomes(sqlx_pools, p) :
            /\ calls' = [calls EXCEPT
                            ![c].pc = AfterContext(r),
                            ![c].pool = p,
                            ![c].sent = Append(@, Sent(ContextStatement(driver, x[1]), p, k, r)),
                            ![c].result = IF AfterContext(r) = "done" THEN "err" ELSE @,
                            ![c].executed_query =
                                IF r = "ok" THEN executed_query(driver, x, calls[c].query)
                                ELSE @]
            /\ session' = IF r = "ok" THEN [session EXCEPT ![p][k] = x] ELSE session
    /\ UNCHANGED <<pool_vars, side_vars, store_vars, ident, built>>

\* the QueryResult execute_with_context returns
Returned(call, kind) ==
    [call EXCEPT !.pc = "done", !.result = kind,
                 !.original_query = Some(call.query),
                 !.result_executed_query = Some(call.executed_query)]

\* first attempt: fetch_all, on connection k
ExecFetch(c, k) ==
    /\ calls[c].pc = "fetch"
    /\ LET p == calls[c].pool
           call == [calls[c] EXCEPT !.sent = Append(@, Sent(calls[c].query, p, k, "ok"))]
           failed == [calls[c] EXCEPT !.sent = Append(@, Sent(calls[c].query, p, k, "err"))]
       IN
       /\ \E r \in RunOutcomes(sqlx_pools, p) :
            calls' = [calls EXCEPT ![c] = IF r = "ok" THEN Returned(call, "rows")
                                         ELSE [failed EXCEPT !.pc = "retry"]]
       /\ session' = AfterStatement(session, p, k)
    /\ UNCHANGED <<pool_vars, side_vars, store_vars, ident, built>>

\* second attempt: execute, on connection k
ExecRetry(c, k) ==
    /\ calls[c].pc = "retry"
    /\ LET p == calls[c].pool
           call == [calls[c] EXCEPT !.sent = Append(@, Sent(calls[c].query, p, k, "ok"))]
           failed == [calls[c] EXCEPT !.sent = Append(@, Sent(calls[c].query, p, k, "err"))]
       IN
       /\ \E r \in RunOutcomes(sqlx_pools, p) :
            calls' = [calls EXCEPT ![c] = IF r = "ok" THEN Returned(call, "affected")
                                         ELSE [failed EXCEPT !.pc = "done", !.result = "err"]]
       /\ session' = AfterStatement(session, p, k)
    /\ UNCHANGED <<pool_vars, side_vars, store_vars, ident, built>>

ExecBy(c) ==
    \/ \E q \in Queries, d \in Databases \cup {NoDatabase}, x \in Contexts : ExecBegin(c, q, d, x)
    \/ ExecGetPool(c)
    \/ ExecConnect(c)
    \/ ExecInsert(c)
    \/ ExecPoolFailed(c)
    \/ ExecNoContext(c)
    \/ \E k \in 1..MaxConns : ExecContext(c, k)
    \/ \E k \in 1..MaxConns : ExecFetch(c, k)
    \/ \E k \in 1..MaxConns : ExecRetry(c, k)

NextExec == \E c \in ExecClients : ExecBy(c)

SpecExec == Init /\ [][NextExec]_vars

----------------------------------------------------------------------------
(* The table-name extractor on its own: a statement comes in, the extractor
   is applied to it *)

\* SELECT <columns> FROM, in either case
SelectHeads ==
    {<<"S", "E", "L", "E", "C", "T", " ", "*", " ", "F", "R", "O", "M", " ">>,
     <<"s", "e", "l", "e", "c", "t", " ", "*", " ", "f", "r", "o", "m", " ">>,
     <<"S", "E", "L", "E", "C", "T", " ", "i", "d", ",", " ", "n", "a", "m", "e", " ", "F", "R", "O", "M", " ">>,
     <<"S", "e", "l", "e", "c", "t", " ", "i", "d", ",", " ", "n", "a", "m", "e", " ", "F", "r", "o", "m", " ">>}

\* an optional schema prefix, bare or quoted
SchemaPrefixes ==
    {<<>>,
     <<"p", "u", "b", "l", "i", "c", ".">>,
     <<DoubleQuote, "p", "u", "b", "l", "i", "c", DoubleQuote, ".">>,
     <<Backtick, "d", "b", Backtick, ".">>}

\* an optional quote around the table name
NameQuotes == {<<>>, <<Backtick>>, <<DoubleQuote>>}

TableNames ==
    {<<"u", "s", "e", "r", "s">>,
     <<"o", "r", "d", "e", "r", "_", "i", "t", "e", "m", "s">>}

\* an optional WHERE, ORDER, LIMIT, GROUP, HAVING or JOIN clause, or a semicolon
Clauses ==
    {<<>>,
     <<" ", "W", "H", "E", "R", "E", " ", "i", "d", " ", "=", " ", "1">>,
     <<" ", "w", "h", "e", "r", "e", " ", "a", "c", "t", "i", "v", "e", " ", "=", " ", "t", "r", "u", "e", " ", "L", "I", "M", "I", "T", " ", "1", "0">>,
     <<" ", "O", "R", "D", "E", "R", " ", "B", "Y", " ", "i", "d">>,
     <<" ", "L", "I", "M", "I", "T", " ", "1", "0">>,
     <<" ", "G", "R", "O", "U", "P", " ", "B", "Y", " ", "i", "d">>,
     <<" ", "H", "A", "V", "I", "N", "G", " ", "i", "d", " ", ">", " ", "1">>,
     <<" ", "J", "O", "I", "N", " ", "o", "r", "d", "e", "r", "s", " ", "O", "N", " ", "1">>,
     <<";">>}

SelectParts ==
    [head : SelectHeads, schema : SchemaPrefixes, quote : NameQuotes, name : TableNames,
     clause : Clauses]

\* SELECT <columns> FROM <table> <clause>
SelectStatement(parts) ==
    parts.head \o parts.schema \o parts.quote \o parts.name \o parts.quote \o parts.clause

\* statements that are no SELECT
OtherStatements ==
    {<<"I", "N", "S", "E", "R", "T", " ", "I", "N", "T", "O", " ", "u", "s", "e", "r", "s">>,
     <<"I", "N", "S", "E", "R", "T", " ", "I", "N", "T", "O", " ", "u", "s", "e", "r", "s", " ", "V", "A", "L", "U", "E", "S", " ", "(", "1", ")">>,
     <<"U", "P", "D", "A", "T", "E", " ", "u", "s", "e", "r", "s", " ", "S", "E", "T", " ", "n", "a", "m", "e", " ", "=", " ", "'", "t", "e", "s", "t", "'">>,
     <<"D", "E", "L", "E", "T", "E", " ", "F", "R", "O", "M", " ", "u", "s", "e", "r", "s">>,
     <<"d", "e", "l", "e", "t", "e", " ", "f", "r", "o", "m", " ", "u", "s", "e", "r", "s", " ", "w", "h", "e", "r", "e", " ", "i", "d", " ", "=", " ", "1">>,
     <<"S", "H", "O", "W", " ", "T", "A", "B", "L", "E", "S", " ", "F", "R", "O", "M", " ", "d", "b">>,
     <<"C", "R", "E", "A", "T", "E", " ", "T", "A", "B", "L", "E", " ", "t", " ", "(", "i", "d", " ", "I", "N", "T", ")">>}

\* SELECT statements that name no table
SelectsWithoutTable ==
    {<<"S", "E", "L", "E", "C", "T", " ", "*">>,
     <<"S", "E", "L", "E", "C", "T", " ", "1">>,
     <<"s", "e", "l", "e", "c", "t", " ", "n", "o", "w", "(", ")">>,
     <<"S", "E", "L", "E", "C", "T", " ", "*", " ", "F", "R", "O", "M", " ", Backtick, Backtick>>,
     <<"S", "E", "L", "E", "C", "T", " ", "*", " ", "F", "R", "O", "M", " ", DoubleQuote, DoubleQuote>>,
     <<"S", "E", "L", "E", "C", "T", " ", "*", " ", "F", "R", "O", "M", " ", ";">>,
     <<"S", "E", "L", "E", "C", "T", " ", "*", " ", "F", "R", "O", "M", " ", " ">>}

Statements == {SelectStatement(parts) : parts \in SelectParts} \cup OtherStatements
              \cup SelectsWithoutTable

\* extract_table_from_select(s): a call sees its argument alone, so every
\* statement is taken from the state in which none has been seen
Extract(s) ==
    /\ statement = <<>> /\ table = NoContext
    /\ statement' = s
    /\ table' = extract_table_from_select(s)
    /\ UNCHANGED <<pool_vars, exec_vars, store_vars, run, connections, uuids, cmd, cell, value>>

NextExtract == \E s \in Statements : Extract(s)

\* the extractor does not depend on the connector: one connector is fixed
InitExtract == Init /\ driver = "MySQL"

SpecExtract == InitExtract /\ [][NextExtract]_vars

----------------------------------------------------------------------------
(* Value coercion: the match on the column's type name in MySqlConnector::execute
   and pg_value_to_json.  A cell is a column value as the driver holds it:
   its type name, the set of Rust types row.try_get succeeds for, whether its
   f64 is finite, and its bytes. *)

MaxBytes == 2

\* the bytes of "1", of "a", and a byte no UTF-8 text contains
ByteValues == {49, 97, 255}

ByteStrings == UNION {[1..n -> ByteValues] : n \in 0..MaxBytes}

\* String::from_utf8(bytes) is Ok
Utf8Valid(bytes) == \A i \in 1..Len(bytes) : bytes[i] < 128

\* the String of String::from_utf8(bytes)
from_utf8(bytes) == [i \in 1..Len(bytes) |-> IF bytes[i] = 49 THEN "1" ELSE "a"]

\* serde_json::from_str is Ok: of the texts over "1" and "a", the numbers
from_str_ok(text) == text # <<>> /\ \A i \in 1..Len(text) : text[i] = "1"

MyIntegerTypes == {"BIGINT", "INT", "SMALLINT", "TINYINT", "MEDIUMINT"}
MyUnsignedTypes == {"BIGINT UNSIGNED", "INT UNSIGNED", "SMALLINT UNSIGNED",
                    "TINYINT UNSIGNED", "MEDIUMINT UNSIGNED"}
MyFloatTypes == {"FLOAT", "DOUBLE"}
MyDecimalTypes == {"DECIMAL", "NEWDECIMAL"}
MyDatetimeTypes == {"DATETIME", "DATETIME(6)"}
MyTimestampTypes == {"TIMESTAMP", "TIMESTAMP(6)"}
MyTimeTypes == {"TIME", "TIME(6)"}
MyBinaryTypes == {"BLOB", "BINARY", "VARBINARY", "LONGBLOB", "MEDIUMBLOB", "TINYBLOB"}
MyBooleanTypes == {"BOOLEAN", "BOOL"}

\* the arm of the match in MySqlConnector::execute that a type name selects
my_arm(type_name) ==
    IF type_name \in MyIntegerTypes THEN "i64"
    ELSE IF type_name \in MyUnsignedTypes THEN "u64"
    ELSE IF type_name \in MyFloatTypes THEN "f64"
    ELSE IF type_name \in MyDecimalTypes THEN "decimal"
    ELSE IF type_name = "JSON" THEN "Json"
    ELSE IF type_name = "DATE" THEN "NaiveDate"
    ELSE IF type_name \in MyDatetimeTypes THEN "NaiveDateTime"
    ELSE IF type_name \in MyTimestampTypes THEN "DateTime"
    ELSE IF type_name \in MyTimeTypes THEN "NaiveTime"
    ELSE IF type_name \in MyBinaryTypes THEN "binary"
    ELSE IF type_name \in MyBooleanTypes THEN "bool"
    ELSE "fallback"

\* the arm of the match in pg_value_to_json that a type name selects
pg_arm(type_name) ==
    IF type_name \in {"INT8", "BIGINT"} THEN "i64"
    ELSE IF type_name \in {"INT4", "INTEGER", "SERIAL"} THEN "i32"
    ELSE IF type_name \in {"INT2", "SMALLINT"} THEN "i16"
    ELSE IF type_name \in {"FLOAT8", "DOUBLE PRECISION"} THEN "f64"
    ELSE IF type_name \in {"FLOAT4", "REAL"} THEN "f32"
    ELSE IF type_name \in {"NUMERIC", "DECIMAL"} THEN "decimal"
    ELSE IF type_name \in {"BOOL", "BOOLEAN"} THEN "bool"
    ELSE IF type_name \in {"TIMESTAMPTZ", "TIMESTAMP WITH TIME ZONE"} THEN "DateTime"
    ELSE IF type_name \in {"TIMESTAMP", "TIMESTAMP WITHOUT TIME ZONE"} THEN "NaiveDateTime"
    ELSE IF type_name = "DATE" THEN "NaiveDate"
    ELSE IF type_name \in {"TIME", "TIME WITHOUT TIME ZONE"} THEN "NaiveTime"
    ELSE IF type_name = "UUID" THEN "Uuid"
    ELSE IF type_name \in {"JSON", "JSONB"} THEN "Json"
    ELSE "fallback"

arm(drv, type_name) == IF drv = "MySQL" THEN my_arm(type_name) ELSE pg_arm(type_name)

\* row.try_get::<T, _>(i) is Ok
TryGet(c, T) == T \in c.ok

\* the JSON value made of the value try_get::<T> decoded
Decoded(kind, T) == [json |-> kind, from |-> T, text |-> <<>>]

\* the JSON kind the single-decode arms give
KindOf(T) ==
    IF T \in {"i64", "u64", "i32", "i16", "f64", "f32"} THEN "number"
    ELSE IF T = "bool" THEN "bool"
    ELSE IF T = "Json" THEN "value"
    ELSE "string"

\* serde_json::Number::from_f64(v).map(Value::Number).unwrap_or(Value::Null)
from_f64(c) == IF c.float = "finite" THEN Decoded("number", "f64") ELSE JsonNull

\* row.try_get::<T, _>(i).map(..).unwrap_or(Value::Null)
single_arm(c, T) ==
    IF ~TryGet(c, T) THEN JsonNull
    ELSE IF T \in {"f64", "f32"} THEN from_f64(c)
    ELSE Decoded(KindOf(T), T)

\* a decimal arm that decodes as f64 first
decimal_arm_FloatFirst(c) ==
    IF TryGet(c, "f64") THEN from_f64(c)
    ELSE IF TryGet(c, "BigDecimal") THEN Decoded("string", "BigDecimal")
    ELSE JsonNull

\* the "DECIMAL" | "NEWDECIMAL" arm, and the "NUMERIC" | "DECIMAL" arm
decimal_arm(c) ==
    IF TryGet(c, "BigDecimal") THEN Decoded("string", "BigDecimal")
    ELSE IF TryGet(c, "f64") THEN from_f64(c)
    ELSE JsonNull

\* format!("[binary: {} bytes]", bytes.len())
placeholder(bytes) ==
    [json |-> "string", from |-> "placeholder",
     text |-> <<"[binary: ", ToString(Len(bytes)), " bytes]">>]

\* a binary arm that passes bytes that are no UTF-8 on as they are
binary_arm_Raw(c) ==
    IF TryGet(c, "Json") THEN Decoded("value", "Json")
    ELSE IF TryGet(c, "Bytes") THEN
        IF Utf8Valid(c.bytes) THEN
            IF from_str_ok(from_utf8(c.bytes))
            THEN [json |-> "value", from |-> "from_str", text |-> from_utf8(c.bytes)]
            ELSE [json |-> "string", from |-> "from_utf8", text |-> from_utf8(c.bytes)]
        ELSE [json |-> "string", from |-> "raw", text |-> <<>>]
    ELSE JsonNull

\* the "BLOB" | "BINARY" | .. arm
binary_arm(c) ==
    IF TryGet(c, "Json") THEN Decoded("value", "Json")
    ELSE IF TryGet(c, "Bytes") THEN
        IF Utf8Valid(c.bytes) THEN
            IF from_str_ok(from_utf8(c.bytes))
            THEN [json |-> "value", from |-> "from_str", text |-> from_utf8(c.bytes)]
            ELSE [json |-> "string", from |-> "from_utf8", text |-> from_utf8(c.bytes)]
        ELSE placeholder(c.bytes)
    ELSE JsonNull

\* the `_` arm of MySqlConnector::execute
my_fallback_arm(c) ==
    IF TryGet(c, "String") THEN Decoded("string", "String")
    ELSE IF TryGet(c, "NaiveDateTime") THEN Decoded("string", "NaiveDateTime")
    ELSE IF TryGet(c, "i64") THEN Decoded("number", "i64")
    ELSE IF TryGet(c, "f64") THEN from_f64(c)
    ELSE IF TryGet(c, "Bytes") /\ Utf8Valid(c.bytes)
         THEN [json |-> "string", from |-> "from_utf8", text |-> from_utf8(c.bytes)]
    ELSE JsonNull

\* the `_` arm of pg_value_to_json
pg_fallback_arm(c) ==
    IF TryGet(c, "String") THEN Decoded("string", "String")
    ELSE IF TryGet(c, "i64") THEN Decoded("number", "i64")
    ELSE IF TryGet(c, "i32") THEN Decoded("number", "i32")
    ELSE IF TryGet(c, "f64") THEN from_f64(c)
    ELSE IF TryGet(c, "bool") THEN Decoded("bool", "bool")
    ELSE IF TryGet(c, "DateTime") THEN Decoded("string", "DateTime")
    ELSE IF TryGet(c, "NaiveDateTime") THEN Decoded("string", "NaiveDateTime")
    ELSE JsonNull

\* the JSON value a connector makes of a cell
value_to_json(drv, c) ==
    LET a == arm(drv, c.type) IN
    IF a = "decimal" THEN decimal_arm(c)
    ELSE IF a = "binary" THEN binary_arm(c)
    ELSE IF a = "fallback" THEN (IF drv = "MySQL" THEN my_fallback_arm(c) ELSE pg_fallback_arm(c))
    ELSE single_arm(c, a)

\* the type names cells are drawn from: the decimal and the binary ones, one
\* of each other family, and names the match has no arm for
TypeNames(drv) ==
    IF drv = "MySQL"
    THEN MyDecimalTypes \cup MyBinaryTypes \cup {"INT", "DOUBLE", "JSON", "VARCHAR", "GEOMETRY"}
    ELSE {"NUMERIC", "DECIMAL", "INT8", "FLOAT8", "JSONB", "TEXT", "BYTEA"}

\* the decodes whose outcome is drawn for a cell of this type
DrawnDecodes(drv, type_name) ==
    LET a == arm(drv, type_name) IN
    IF a = "decimal" THEN {"BigDecimal", "f64"}
    ELSE IF a = "binary" THEN {"Json", "Bytes"}
    ELSE IF a = "fallback"
         THEN {"String", "i64", "i32", "f64", "bool", "DateTime", "NaiveDateTime", "Bytes"}
    ELSE {a}

Cells(drv) ==
    UNION {[type : {t}, ok : SUBSET DrawnDecodes(drv, t), float : {"finite", "nan"},
            bytes : ByteStrings] : t \in TypeNames(drv)}

\* a row holding some cell has come back from the driver
InitCoerce ==
    /\ PoolInit
    /\ ExecInit
    /\ run = NoRun /\ connections = <<>> /\ uuids = {} /\ cmd = NoCommand
    /\ statement = <<>> /\ table = NoContext
    /\ cell \in Cells(driver)
    /\ value = NoValue
    /\ StoreInit

\* the cell is coerced
Coerce ==
    /\ value = NoValue
    /\ value' = value_to_json(driver, cell)
    /\ UNCHANGED <<pool_vars, exec_vars, store_vars, run, connections, uuids, cmd, statement, table, cell>>

NextCoerce == Coerce

SpecCoerce == InitCoerce /\ [][NextCoerce]_vars

----------------------------------------------------------------------------
(* execute, and the tail of execute_with_context: the statement as a
   row-returning query, column inference when no row came back, the
   statement again as an affected-rows statement *)

MaxRows == 2

\* the statements callers pass
RunQueries ==
    {<<"S", "E", "L", "E", "C", "T", " ", "*", " ", "F", "R", "O", "M", " ", "u", "s", "e", "r", "s">>,
     <<" ", " ", "s", "e", "l", "e", "c", "t", " ", "i", "d", " ", "f", "r", "o", "m", " ", "p", "u", "b", "l", "i", "c", ".", "u", "s", "e", "r", "s", " ", "w", "h", "e", "r", "e", " ", "i", "d", " ", "=", " ", "0">>,
     <<"S", "E", "L", "E", "C", "T", " ", "1">>,
     <<"D", "E", "L", "E", "T", "E", " ", "F", "R", "O", "M", " ", "u", "s", "e", "r", "s">>,
     <<"I", "N", "S", "E", "R", "T", " ", "I", "N", "T", "O", " ", "u", "s", "e", "r", "s", " ", "V", "A", "L", "U", "E", "S", " ", "(", "1", ")">>}

SelectKeyword == <<"S", "E", "L", "E", "C", "T">>

\* the columns a result set can have: an integer id, alone or with a decimal
ColumnLists(drv) ==
    LET id == [name |-> "id", type |-> IF drv = "MySQL" THEN "INT" ELSE "INT8"]
        price == [name |-> "price", type |-> "DECIMAL"]
    IN {<<id>>, <<id, price>>}

\* the cells a column of this type can hold
CellsOf(drv, type_name) ==
    [type : {type_name}, ok : SUBSET DrawnDecodes(drv, type_name), float : {"finite"},
     bytes : {<<>>}]

\* the rows a result set with these columns can hold
RowsOf(drv, cols) ==
    {row \in [1..Len(cols) -> UNION {CellsOf(drv, cols[j].type) : j \in 1..Len(cols)}] :
        \A j \in 1..Len(cols) : row[j].type = cols[j].type}

\* what fetch_all can return: every row has the columns of the result set
ResultSets(drv) ==
    UNION {[columns : {cols}, rows : UNION {[1..n -> RowsOf(drv, cols)] : n \in 0..MaxRows}] :
           cols \in ColumnLists(drv)}

\* rows of the catalog's answer: MySQL may hand out a name that is no string
InfoRows(drv) ==
    LET id == [name |-> "id", data_type |-> "int", readable |-> TRUE]
        price == [name |-> "price", data_type |-> "decimal", readable |-> TRUE]
        odd == [name |-> "odd", data_type |-> "blob", readable |-> FALSE]
    IN IF drv = "MySQL" THEN {<<>>, <<id>>, <<id, price>>, <<id, odd, price>>}
       ELSE {<<>>, <<id>>, <<id, price>>}

\* ColumnInfo { name, data_type, nullable: true }
ColumnInfo(name, data_type) == [name |-> name, data_type |-> data_type, nullable |-> TRUE]

\* rows[0].columns().iter().map(..).collect()
columns_of_rows(rs) ==
    [j \in 1..Len(rs.columns) |-> ColumnInfo(rs.columns[j].name, rs.columns[j].type)]

\* a conversion that leaves out the values it cannot decode
json_row_SkipNull(drv, row) ==
    LET RECURSIVE keep(_)
        keep(r) == IF r = <<>> THEN <<>>
                   ELSE IF value_to_json(drv, Head(r)) = JsonNull THEN keep(Tail(r))
                   ELSE <<value_to_json(drv, Head(r))>> \o keep(Tail(r))
    IN keep(row)

\* row.columns().iter().enumerate().map(..).collect()
json_row(drv, row) == [j \in 1..Len(row) |-> value_to_json(drv, row[j])]

\* rows.iter().map(..).collect()
json_rows(drv, rs) == [i \in 1..Len(rs.rows) |-> json_row(drv, rs.rows[i])]

\* info_rows.iter().filter_map(..).collect() (MySQL), .map(..).collect() (PostgreSQL)
RECURSIVE columns_of_info(_)
columns_of_info(info) ==
    IF info = <<>> THEN <<>>
    ELSE (IF Head(info).readable THEN <<ColumnInfo(Head(info).name, Head(info).data_type)>>
          ELSE <<>>) \o columns_of_info(Tail(info))

\* the statement is a SELECT the extractor finds a table in
inferable(query) ==
    starts_with(to_uppercase(trim(query)), SelectKeyword)
    /\ extract_table_from_select(query) # NoContext

\* a failed catalog lookup that fails the call
after_lookup_Strict(res, ok, info) ==
    IF ok THEN [res EXCEPT !.status = "ok", !.columns = columns_of_info(info)]
    ELSE [res EXCEPT !.status = "err", !.error = "lookup"]

\* if let Ok(info_rows) = .. { .. } else { vec![] }
after_lookup(res, ok, info) ==
    [res EXCEPT !.status = "ok", !.columns = IF ok THEN columns_of_info(info) ELSE <<>>]

\* an error report that keeps the first attempt's error
surfaced_error_First(attempts) == attempts[1].error

\* the `?` on the second attempt: its error is the call's error
surfaced_error(attempts) == attempts[Len(attempts)].error

Attempt(how, err) == [how |-> how, error |-> err]

RunBegin(op, q) ==
    /\ run.pc \in {"idle", "done"}
    /\ run' = [NoRun EXCEPT !.pc = "fetch", !.op = op, !.query = q]
    /\ UNCHANGED <<pool_vars, exec_vars, store_vars, connections, uuids, cmd, statement, table, cell, value>>

\* fetch_all is Ok with at least one row
RunFetchRows(rs) ==
    /\ run.pc = "fetch"
    /\ rs.rows # <<>>
    /\ run' = [run EXCEPT !.pc = "done",
                          !.attempts = Append(@, Attempt("fetch_all", "none")),
                          !.fetched = rs,
                          !.result = [NoResult EXCEPT !.status = "ok",
                                                      !.columns = columns_of_rows(rs),
                                                      !.rows = json_rows(driver, rs)]]
    /\ UNCHANGED <<pool_vars, exec_vars, store_vars, connections, uuids, cmd, statement, table, cell, value>>

\* fetch_all is Ok with no row
RunFetchEmpty(rs) ==
    /\ run.pc = "fetch"
    /\ rs.rows = <<>>
    /\ run' = [run EXCEPT !.pc = IF inferable(run.query) THEN "catalog" ELSE "done",
                          !.attempts = Append(@, Attempt("fetch_all", "none")),
                          !.fetched = rs,
                          !.result = IF inferable(run.query) THEN NoResult
                                     ELSE [NoResult EXCEPT !.status = "ok"]]
    /\ UNCHANGED <<pool_vars, exec_vars, store_vars, connections, uuids, cmd, statement, table, cell, value>>

\* the information_schema query for the extracted table name
RunCatalog(ok, info) ==
    /\ run.pc = "catalog"
    /\ run' = [run EXCEPT !.pc = "done",
                          !.lookups = Append(@, [table |-> extract_table_from_select(run.query)[1],
                                                 ok |-> ok,
                                                 info |-> IF ok THEN info ELSE <<>>]),
                          !.result = after_lookup(NoResult, ok, info)]
    /\ UNCHANGED <<pool_vars, exec_vars, store_vars, connections, uuids, cmd, statement, table, cell, value>>

\* fetch_all is Err: the error is dropped
RunFetchFailed ==
    /\ run.pc = "fetch"
    /\ run' = [run EXCEPT !.pc = "retry",
                          !.attempts = Append(@, Attempt("fetch_all", "first"))]
    /\ UNCHANGED <<pool_vars, exec_vars, store_vars, connections, uuids, cmd, statement, table, cell, value>>

\* execute is Ok: rows_affected
RunRetryOk(n) ==
    /\ run.pc = "retry"
    /\ run' = [run EXCEPT !.pc = "done",
                          !.attempts = Append(@, Attempt("execute", "none")),
                          !.result = [NoResult EXCEPT !.status = "ok", !.affected_rows = n]]
    /\ UNCHANGED <<pool_vars, exec_vars, store_vars, connections, uuids, cmd, statement, table, cell, value>>

\* execute is Err
RunRetryFailed ==
    /\ run.pc = "retry"
    /\ LET tried == Append(run.attempts, Attempt("execute", "second")) IN
       run' = [run EXCEPT !.pc = "done",
                          !.attempts = tried,
                          !.result = [NoResult EXCEPT !.status = "err",
                                                      !.error = surfaced_error(tried)]]
    /\ UNCHANGED <<pool_vars, exec_vars, store_vars, connections, uuids, cmd, statement, table, cell, value>>

NextRun ==
    \/ \E op \in {"execute", "execute_with_context"}, q \in RunQueries : RunBegin(op, q)
    \/ \E rs \in ResultSets(driver) : RunFetchRows(rs)
    \/ \E rs \in ResultSets(driver) : RunFetchEmpty(rs)
    \/ \E ok \in BOOLEAN, info \in InfoRows(driver) : RunCatalog(ok, info)
    \/ RunFetchFailed
    \/ \E n \in 0..MaxRows : RunRetryOk(n)
    \/ RunRetryFailed

SpecRun == Init /\ [][NextRun]_vars

----------------------------------------------------------------------------
(* AppState: the registry of connections and the commands that look a
   connection up *)

MaxUuids == 3

\* connection ids, as the front end can pass them
Uuids == 1..MaxUuids

\* ConnectionConfig, as far as connect looks at it
Configs == [driver : Drivers, database : {NoContext, Some("app")}]

\* the commands that call a connector method on a looked-up connection
ConnectorCommands == {"execute_query", "get_databases", "get_schemas", "get_tables", "get_columns"}

\* the connector method each command calls
ConnectorMethod(op) == IF op = "execute_query" THEN "execute_with_context" ELSE op

\* MySqlConnector::connect / PostgresConnector::connect returned Ok
Connector(config) == [driver |-> config.driver, config |-> config]

Ok(id) == [status |-> "ok", error |-> "none", id |-> id]
Err(error, id) == [status |-> "err", error |-> error, id |-> id]

\* a lookup that falls back to any connection of the registry
get_connection_Any(conns, id) ==
    IF DOMAIN conns # {} THEN Ok(IF id \in DOMAIN conns THEN id ELSE CHOOSE i \in DOMAIN conns : TRUE)
    ELSE Err("ConnectionNotFound", id)

\* connections.get(id).cloned().ok_or_else(|| AppError::ConnectionNotFound(id))
get_connection(conns, id) ==
    IF id \in DOMAIN conns THEN Ok(id) ELSE Err("ConnectionNotFound", id)

\* an insert that forgets the other connections
insert_Only(conns, id, connector) == [i \in {id} |-> connector]

\* connections.insert(connection_id.clone(), connector)
insert(conns, id, connector) ==
    [i \in DOMAIN conns \cup {id} |-> IF i = id THEN connector ELSE conns[i]]

\* a remove that leaves the entry where it is
remove_Kept(conns, id) == conns

\* connections.remove(connection_id)
remove(conns, id) == [i \in DOMAIN conns \ {id} |-> conns[i]]

\* AppState::connect: the connector is constructed; on Ok it is stored
\* under a new Uuid
Connect(config, ok) ==
    /\ ok => uuids # Uuids
    /\ LET id == CHOOSE i \in Uuids \ uuids : \A j \in Uuids \ uuids : i <= j
           tried == <<[driver |-> config.driver, ok |-> ok]>>
       IN IF ok
          THEN /\ connections' = insert(connections, id, Connector(config))
               /\ uuids' = uuids \cup {id}
               /\ cmd' = [NoCommand EXCEPT !.op = "connect", !.attempts = tried, !.ret = Ok(id)]
          ELSE /\ cmd' = [NoCommand EXCEPT !.op = "connect", !.attempts = tried,
                                           !.ret = Err("Database", 0)]
               /\ UNCHANGED <<connections, uuids>>
    /\ UNCHANGED <<pool_vars, exec_vars, store_vars, run, statement, table, cell, value>>

\* AppState::disconnect: a stored connector is removed and closed
Disconnect(id) ==
    /\ connections' = IF id \in DOMAIN connections THEN remove(connections, id) ELSE connections
    /\ cmd' = [NoCommand EXCEPT !.op = "disconnect", !.id = id,
                                !.calls = IF id \in DOMAIN connections
                                          THEN <<[id |-> id, method |-> "close"]>> ELSE <<>>,
                                !.ret = Ok(0)]
    /\ UNCHANGED <<pool_vars, exec_vars, store_vars, run, uuids, statement, table, cell, value>>

\* AppState::get_connection
GetConnection(id) ==
    /\ cmd' = [NoCommand EXCEPT !.op = "get_connection", !.id = id,
                                !.ret = get_connection(connections, id)]
    /\ UNCHANGED <<pool_vars, exec_vars, store_vars, run, connections, uuids, statement, table, cell, value>>

\* execute_query, get_databases, get_schemas, get_tables, get_columns: the
\* connector is looked up, then its method is called and its result returned
Command(op, id, ok) ==
    /\ LET found == get_connection(connections, id) IN
       cmd' = IF found.status = "err"
              THEN [NoCommand EXCEPT !.op = op, !.id = id, !.ret = found]
              ELSE [NoCommand EXCEPT !.op = op, !.id = id,
                                     !.calls = <<[id |-> found.id, method |-> ConnectorMethod(op)]>>,
                                     !.ret = IF ok THEN Ok(found.id) ELSE Err("Database", found.id)]
    /\ UNCHANGED <<pool_vars, exec_vars, store_vars, run, connections, uuids, statement, table, cell, value>>

NextRegistry ==
    \/ \E config \in Configs, ok \in BOOLEAN : Connect(config, ok)
    \/ \E id \in Uuids : Disconnect(id)
    \/ \E id \in Uuids : GetConnection(id)
    \/ \E op \in ConnectorCommands, id \in Uuids, ok \in BOOLEAN : Command(op, id, ok)

SpecRegistry == Init /\ [][NextRegistry]_vars

----------------------------------------------------------------------------
(* The schema operations that shape a catalog answer: get_columns on both
   connectors and get_databases on MySqlConnector *)

\* the COLUMN_KEY values of information_schema.COLUMNS
MyColumnKeys == {"", "PRI", "UNI", "MUL"}

\* a row of MySQL's answer to the get_columns statement
MyColumnRows ==
    [column_name : {"id", "email"}, is_nullable : {"YES", "NO"}, column_key : MyColumnKeys]

\* what the joins of PostgreSQL's get_columns statement find for a column:
\* whether a PRIMARY KEY and whether a UNIQUE constraint names it
PgColumnRows ==
    [column_name : {"id", "email"}, is_nullable : {"YES", "NO"}, pk : BOOLEAN, u : BOOLEAN]

\* the database names SHOW DATABASES can report
information_schema == <<"i", "n", "f", "o", "r", "m", "a", "t", "i", "o", "n", "_", "s", "c", "h", "e", "m", "a">>
performance_schema == <<"p", "e", "r", "f", "o", "r", "m", "a", "n", "c", "e", "_", "s", "c", "h", "e", "m", "a">>
ServerDatabases ==
    {information_schema, performance_schema,
     <<"a", "p", "p">>,
     <<"m", "y", "s", "q", "l">>,
     <<"m", "y", "_", "i", "n", "f", "o", "r", "m", "a", "t", "i", "o", "n", "_", "s", "c", "h", "e", "m", "a">>,
     <<"p", "e", "r", "f", "o", "r", "m", "a", "n", "c", "e", "_", "s", "c", "h", "e", "m", "a", "_", "2">>}

\* the sequences of at most MaxRows elements of a set
RowLists(S) == UNION {[1..n -> S] : n \in 0..MaxRows}

\* the answers a catalog statement can get
CatalogAnswers(drv) ==
    [op : {"get_columns"}, rows : RowLists(IF drv = "MySQL" THEN MyColumnRows ELSE PgColumnRows)]
    \cup (IF drv = "MySQL" THEN [op : {"get_databases"}, rows : RowLists(ServerDatabases)]
          ELSE {})

\* the column_key CASE of PostgreSQL's statement, then try_get::<String>(3).ok()
pg_key(row) ==
    IF row.pk THEN Some("PRI") ELSE IF row.u THEN Some("UNI") ELSE NoContext

\* get_string_from_row(row, 3).filter(|s| !s.is_empty())
my_key(row) == IF row.column_key = "" THEN NoContext ELSE Some(row.column_key)

\* ColumnDetail, as far as the key classification goes
ColumnDetail(drv, row) ==
    [name |-> row.column_name,
     nullable |-> row.is_nullable = "YES",
     key |-> IF drv = "MySQL" THEN my_key(row) ELSE pg_key(row)]

\* const HIDDEN_DATABASES
HIDDEN_DATABASES == {information_schema, performance_schema}

\* a filter that hides every name a hidden name occurs in
hidden_Pattern(name) == \E h \in HIDDEN_DATABASES : find(name, h) # 0

\* HIDDEN_DATABASES.contains(&name.as_str())
hidden(name) == name \in HIDDEN_DATABASES

\* rows.iter().filter_map(..).collect()
RECURSIVE visible_databases(_)
visible_databases(names) ==
    IF names = <<>> THEN <<>>
    ELSE (IF hidden(Head(names)) THEN <<>> ELSE <<[name |-> Head(names)]>>)
         \o visible_databases(Tail(names))

\* the catalog has answered the statement of some schema operation
InitCatalog ==
    /\ PoolInit
    /\ ExecInit
    /\ SideInit
    /\ catalog \in CatalogAnswers(driver)
    /\ listing = NoListing
    /\ history = [clock |-> 0, entries |-> [d \in Days |-> 0]]
    /\ locks = NoLocks
    /\ workspaces = NoWorkspaces

\* get_columns maps the rows of the answer
GetColumns ==
    /\ catalog.op = "get_columns"
    /\ listing = NoListing
    /\ listing' = [op |-> "get_columns",
                   items |-> [i \in 1..Len(catalog.rows) |-> ColumnDetail(driver, catalog.rows[i])]]
    /\ UNCHANGED <<pool_vars, exec_vars, side_vars, catalog, history, locks, workspaces>>

\* MySqlConnector::get_databases filters the names of the answer
GetDatabases ==
    /\ catalog.op = "get_databases"
    /\ driver = "MySQL"
    /\ listing = NoListing
    /\ listing' = [op |-> "get_databases", items |-> visible_databases(catalog.rows)]
    /\ UNCHANGED <<pool_vars, exec_vars, side_vars, catalog, history, locks, workspaces>>

NextCatalog ==
    \/ GetColumns
    \/ GetDatabases

SpecCatalog == InitCatalog /\ [][NextCatalog]_vars

----------------------------------------------------------------------------
(* QueryHistoryStorage: the query_history table, as the number of entries
   per executed_at day *)

MAX_HISTORY_ENTRIES == 1000
HISTORY_RETENTION_DAYS == 30

\* SELECT COUNT(*) FROM query_history
RECURSIVE CountFrom(_, _)
CountFrom(entries, days) ==
    IF days = {} THEN 0
    ELSE LET d == CHOOSE x \in days : TRUE
         IN entries[d] + CountFrom(entries, days \ {d})

Count_history(entries) == CountFrom(entries, Days)

\* DELETE .. WHERE executed_at < datetime('now', '-30 days')
expire(entries, clock) ==
    [d \in Days |-> IF d < clock - HISTORY_RETENTION_DAYS THEN 0 ELSE entries[d]]

\* DELETE .. WHERE id IN (SELECT id .. ORDER BY executed_at ASC LIMIT n)
RECURSIVE delete_oldest(_, _, _)
delete_oldest(entries, days, n) ==
    IF n = 0 \/ days = {} THEN entries
    ELSE LET d == CHOOSE x \in days : \A y \in days : x <= y
             k == IF entries[d] < n THEN entries[d] ELSE n
         IN delete_oldest([entries EXCEPT ![d] = @ - k], days \ {d}, n - k)

\* a cleanup that makes no room for the new entry
to_delete_NoRoom(count) == count - MAX_HISTORY_ENTRIES

\* let to_delete = count - MAX_HISTORY_ENTRIES + 1
to_delete(count) == count - MAX_HISTORY_ENTRIES + 1

\* QueryHistoryStorage::cleanup
cleanup(entries, clock) ==
    LET kept == expire(entries, clock)
        count == Count_history(kept)
    IN IF count >= MAX_HISTORY_ENTRIES THEN delete_oldest(kept, Days, to_delete(count))
       ELSE kept

\* QueryHistoryStorage::add: cleanup, then the INSERT, which stamps the
\* entry with CURRENT_TIMESTAMP; a failing INSERT leaves the cleanup done
HistoryAdd(ok) ==
    /\ LET kept == cleanup(history.entries, history.clock) IN
       history' = [history EXCEPT !.entries = IF ok THEN [kept EXCEPT ![history.clock] = @ + 1]
                                                    ELSE kept]
    /\ UNCHANGED <<pool_vars, exec_vars, side_vars, catalog, listing, locks, workspaces>>

\* QueryHistoryStorage::delete of an entry executed on day d
HistoryDelete(d) ==
    /\ history.entries[d] > 0
    /\ history' = [history EXCEPT !.entries[d] = @ - 1]
    /\ UNCHANGED <<pool_vars, exec_vars, side_vars, catalog, listing, locks, workspaces>>

\* QueryHistoryStorage::clear_all
HistoryClearAll ==
    /\ history' = [history EXCEPT !.entries = [d \in Days |-> 0]]
    /\ UNCHANGED <<pool_vars, exec_vars, side_vars, catalog, listing, locks, workspaces>>

\* time passes between two calls
HistoryTick ==
    /\ \E d \in Days : d > history.clock /\ \A e \in Days : e > history.clock => d <= e
    /\ history' = [history EXCEPT !.clock = CHOOSE d \in Days :
                                      d > history.clock /\ \A e \in Days : e > history.clock => d <= e]
    /\ UNCHANGED <<pool_vars, exec_vars, side_vars, catalog, listing, locks, workspaces>>

NextHistory ==
    \/ \E ok \in BOOLEAN : HistoryAdd(ok)
    \/ \E d \in Days : HistoryDelete(d)
    \/ HistoryClearAll
    \/ HistoryTick

\* the storage does not depend on the connector: one connector is fixed
InitHistory == Init /\ driver = "MySQL"

SpecHistory == InitHistory /\ [][NextHistory]_vars

----------------------------------------------------------------------------
(* The locks of a PostgresConnector: the RwLock of the pool map, granted in
   the order of the requests, and the RwLock of each entry's last_used.
   What the pools hold and when an entry counts as idle is left open. *)

LockFrame == UNCHANGED <<pool_vars, exec_vars, side_vars, catalog, listing, history, workspaces>>

\* the mode in which a queued task wants the map lock
Wants(t) ==
    IF t = "sweep" \/ (t \in LockClients /\ locks.pc[t] = "wait_write") THEN "write" ELSE "read"

\* where a task stands once the map lock is granted
Granted(t) ==
    IF t = "sweep" THEN "collecting"
    ELSE IF t = "close" THEN "closing"
    ELSE IF locks.pc[t] = "wait_write" THEN "inserting" ELSE "reading"

\* a miss that keeps its read guard while it connects and inserts
DropReadGuard_Late(rs, c) == rs

\* the block around the fast path ends: the read guard is dropped
DropReadGuard(rs, c) == rs \ {c}

\* get_pool(d) is called: self.pools.read() is requested
LockLookup(c, d) ==
    /\ locks.pc[c] = "idle"
    /\ locks' = [locks EXCEPT !.pc[c] = "wait_read", !.db[c] = d, !.queue = Append(@, c)]
    /\ LockFrame

\* the map lock goes to the request at the head of the queue
LockGrant ==
    /\ locks.queue # <<>>
    /\ LET t == Head(locks.queue) IN
       /\ locks.writer = "none"
       /\ Wants(t) = "write" => locks.readers = {}
       /\ locks' = [locks EXCEPT
                       !.queue = Tail(@),
                       !.pc[t] = Granted(t),
                       !.readers = IF Wants(t) = "read" THEN @ \cup {t} ELSE @,
                       !.writer = IF Wants(t) = "write" THEN t ELSE @,
                       !.scan = IF t = "sweep" THEN locks.entries \ {"postgres"} ELSE @,
                       !.left = IF t = "close" THEN locks.entries ELSE @]
    /\ LockFrame

\* pools.get(database) is Some: entry.last_used.write() is requested
LockHit(c) ==
    /\ locks.pc[c] = "reading"
    /\ locks.db[c] \in locks.entries
    /\ locks' = [locks EXCEPT !.pc[c] = "wait_stamp"]
    /\ LockFrame

\* the write guard of last_used is granted
LockStamp(c) ==
    /\ locks.pc[c] = "wait_stamp"
    /\ locks.last_used[locks.db[c]] = "none"
    /\ locks' = [locks EXCEPT !.pc[c] = "stamping", !.last_used[locks.db[c]] = c]
    /\ LockFrame

\* the timestamp is written; both guards are dropped and the pool returned
LockStamped(c) ==
    /\ locks.pc[c] = "stamping"
    /\ locks' = [locks EXCEPT !.pc[c] = "idle",
                              !.last_used[locks.db[c]] = "none",
                              !.readers = @ \ {c}]
    /\ LockFrame

\* pools.get(database) is None: the read guard is dropped, connect begins
LockMiss(c) ==
    /\ locks.pc[c] = "reading"
    /\ locks.db[c] \notin locks.entries
    /\ locks' = [locks EXCEPT !.pc[c] = "connecting",
                              !.readers = DropReadGuard(@, c)]
    /\ LockFrame

\* the backend answers the connect: on Ok self.pools.write() is requested
LockConnected(c, ok) ==
    /\ locks.pc[c] = "connecting"
    /\ locks' = IF ok THEN [locks EXCEPT !.pc[c] = "wait_write", !.queue = Append(@, c)]
                 ELSE [locks EXCEPT !.pc[c] = "idle"]
    /\ LockFrame

\* pools.insert(..); the write guard is dropped and the pool returned
LockInsert(c) ==
    /\ locks.pc[c] = "inserting"
    /\ locks' = [locks EXCEPT !.pc[c] = "idle",
                              !.entries = @ \cup {locks.db[c]},
                              !.writer = "none"]
    /\ LockFrame

\* interval.tick() completes: pools.write() is requested
LockSweepTick ==
    /\ locks.pc["sweep"] = "idle"
    /\ locks' = [locks EXCEPT !.pc["sweep"] = "wait_write", !.queue = Append(@, "sweep")]
    /\ LockFrame

\* the collect loop reads one entry's last_used under its read guard
LockSweepRead(d, idle) ==
    /\ locks.pc["sweep"] = "collecting"
    /\ d \in locks.scan
    /\ locks.last_used[d] = "none"
    /\ locks' = [locks EXCEPT !.scan = @ \ {d},
                              !.evict = IF idle THEN @ \cup {d} ELSE @]
    /\ LockFrame

\* the evict loop removes one entry and its pool's close() completes
LockSweepEvict(d) ==
    /\ locks.pc["sweep"] = "collecting"
    /\ locks.scan = {}
    /\ d \in locks.evict
    /\ locks' = [locks EXCEPT !.evict = @ \ {d}, !.entries = @ \ {d}]
    /\ LockFrame

\* the loop body ends: the write guard is dropped
LockSweepRelease ==
    /\ locks.pc["sweep"] = "collecting"
    /\ locks.scan = {} /\ locks.evict = {}
    /\ locks' = [locks EXCEPT !.pc["sweep"] = "idle", !.writer = "none"]
    /\ LockFrame

\* close() is called: self.pools.read() is requested
LockCloseStart ==
    /\ locks.pc["close"] = "idle"
    /\ locks' = [locks EXCEPT !.pc["close"] = "wait_read", !.queue = Append(@, "close")]
    /\ LockFrame

\* one entry's pool.close() completes
LockCloseOne(d) ==
    /\ locks.pc["close"] = "closing"
    /\ d \in locks.left
    /\ locks' = [locks EXCEPT !.left = @ \ {d}]
    /\ LockFrame

\* Ok(()): the read guard is dropped
LockCloseReturn ==
    /\ locks.pc["close"] = "closing"
    /\ locks.left = {}
    /\ locks' = [locks EXCEPT !.pc["close"] = "idle", !.readers = @ \ {"close"}]
    /\ LockFrame

NextLocks ==
    \/ \E c \in LockClients, d \in Databases : LockLookup(c, d)
    \/ LockGrant
    \/ \E c \in LockClients : LockHit(c)
    \/ \E c \in LockClients : LockStamp(c)
    \/ \E c \in LockClients : LockStamped(c)
    \/ \E c \in LockClients : LockMiss(c)
    \/ \E c \in LockClients, ok \in BOOLEAN : LockConnected(c, ok)
    \/ \E c \in LockClients : LockInsert(c)
    \/ LockSweepTick
    \/ \E d \in Databases, idle \in BOOLEAN : LockSweepRead(d, idle)
    \/ \E d \in Databases : LockSweepEvict(d)
    \/ LockSweepRelease
    \/ LockCloseStart
    \/ \E d \in Databases : LockCloseOne(d)
    \/ LockCloseReturn

\* the runtime runs every task that can take a step, the locks are granted
\* in the order of the requests, and the backend answers every connect and
\* every close; nothing obliges a caller, the timer or close() to start
LockFairness ==
    /\ WF_vars(LockGrant)
    /\ \A c \in LockClients :
          /\ WF_vars(LockHit(c))
          /\ SF_vars(LockStamp(c))
          /\ WF_vars(LockStamped(c))
          /\ WF_vars(LockMiss(c))
          /\ WF_vars(\E ok \in BOOLEAN : LockConnected(c, ok))
          /\ WF_vars(LockInsert(c))
    /\ WF_vars(\E d \in Databases, idle \in BOOLEAN : LockSweepRead(d, idle))
    /\ WF_vars(\E d \in Databases : LockSweepEvict(d))
    /\ WF_vars(LockSweepRelease)
    /\ WF_vars(\E d \in Databases : LockCloseOne(d))
    /\ WF_vars(LockCloseReturn)

\* the lock discipline does not depend on the statements: one connector
InitLocks == Init /\ driver = "PostgreSQL" /\ default_database = "postgres"

SpecLocks == InitLocks /\ [][NextLocks]_vars /\ LockFairness

----------------------------------------------------------------------------
(* WorkspaceStorage: the workspaces table (id, name, is_default) and the
   workspace_connections table, whose rows go with their workspace
   (ON DELETE CASCADE; sqlx opens SQLite with foreign keys on). *)

DEFAULT_WORKSPACE_ID == "default"
\* the number of workspaces ever created
MaxWorkspaces == 2

\* Uuid::new_v4().to_string()
Uuid(n) == ToString(n)
WorkspaceUuids == {Uuid(n) : n \in 1..MaxWorkspaces}
WorkspaceIds == {DEFAULT_WORKSPACE_ID} \cup WorkspaceUuids
WorkspaceNames == {"Default", "team"}
ConnectionIds == {"a", "b"}

WsFrame == UNCHANGED <<pool_vars, exec_vars, side_vars, catalog, listing, history, locks>>

WsReturn(op, id, error) == [op |-> op, id |-> id, error |-> error]

\* INSERT INTO workspaces (id, name, icon, is_default)
insert_workspace(rows, id, name, is_default) ==
    [i \in DOMAIN rows \cup {id} |->
        IF i = id THEN [name |-> name, is_default |-> is_default] ELSE rows[i]]

\* the rows a DELETE .. WHERE leaves
delete_where(rows, gone) == [i \in DOMAIN rows \ gone |-> rows[i]]

\* ON DELETE CASCADE: the junction rows of the workspaces that are left
cascade(conns, rows) == {wc \in conns : wc[1] \in DOMAIN rows}

\* ensure_default_workspace: inserted unless a row with the id exists
ensure_default_workspace(rows) ==
    IF DEFAULT_WORKSPACE_ID \in DOMAIN rows THEN rows
    ELSE insert_workspace(rows, DEFAULT_WORKSPACE_ID, "Default", TRUE)

\* a delete that protects nothing
is_protected_None(rows, id) == FALSE

\* delete: if let Some(w) = workspace { if w.is_default
is_protected(rows, id) == id \in DOMAIN rows /\ rows[id].is_default

\* initialize_schema: CREATE TABLE IF NOT EXISTS, ensure_default_workspace
WsInitialize ==
    /\ workspaces' = [workspaces EXCEPT
                         !.initialized = TRUE,
                         !.rows = ensure_default_workspace(@),
                         !.ret = WsReturn("initialize_schema", "none", "none")]
    /\ WsFrame

\* create: a row under a new Uuid, is_default 0
WsCreate(name) ==
    /\ workspaces.initialized
    /\ workspaces.used # WorkspaceUuids
    /\ LET fresh == {n \in 1..MaxWorkspaces : Uuid(n) \notin workspaces.used}
           id == Uuid(CHOOSE n \in fresh : \A m \in fresh : n <= m) IN
       workspaces' = [workspaces EXCEPT
                        !.rows = insert_workspace(@, id, name, FALSE),
                        !.used = @ \cup {id},
                        !.ret = WsReturn("create", id, "none")]
    /\ WsFrame

\* update: name and icon of the row, then get(id)
WsUpdate(id, name) ==
    /\ workspaces.initialized
    /\ workspaces' = [workspaces EXCEPT
                         !.rows = IF id \in DOMAIN @
                                  THEN [@ EXCEPT ![id].name = name] ELSE @,
                         !.ret = WsReturn("update", id,
                                    IF id \in DOMAIN workspaces.rows THEN "none" ELSE "NotFound")]
    /\ WsFrame

\* delete: refused for the default workspace, else
\* DELETE FROM workspaces WHERE id = ? AND is_default = 0
WsDelete(id) ==
    /\ workspaces.initialized
    /\ IF is_protected(workspaces.rows, id)
       THEN workspaces' = [workspaces EXCEPT !.ret = WsReturn("delete", id, "Validation")]
       ELSE LET gone == {i \in DOMAIN workspaces.rows :
                            i = id /\ ~workspaces.rows[i].is_default}
                left == delete_where(workspaces.rows, gone) IN
            workspaces' = [workspaces EXCEPT
                             !.rows = left,
                             !.connections = cascade(@, left),
                             !.ret = WsReturn("delete", id, "none")]
    /\ WsFrame

\* add_connection: INSERT OR IGNORE; the foreign key wants the workspace
WsAddConnection(id, c) ==
    /\ workspaces.initialized
    /\ workspaces' = IF id \in DOMAIN workspaces.rows
                     THEN [workspaces EXCEPT
                             !.connections = @ \cup {<<id, c>>},
                             !.ret = WsReturn("add_connection", id, "none")]
                     ELSE [workspaces EXCEPT
                             !.ret = WsReturn("add_connection", id, "Database")]
    /\ WsFrame

\* remove_connection
WsRemoveConnection(id, c) ==
    /\ workspaces.initialized
    /\ workspaces' = [workspaces EXCEPT
                         !.connections = @ \ {<<id, c>>},
                         !.ret = WsReturn("remove_connection", id, "none")]
    /\ WsFrame

\* move_connection: remove_connection(from), then add_connection(to)?
WsMoveConnection(c, from, to) ==
    /\ workspaces.initialized
    /\ LET removed == workspaces.connections \ {<<from, c>>} IN
       workspaces' = IF to \in DOMAIN workspaces.rows
                     THEN [workspaces EXCEPT
                             !.connections = removed \cup {<<to, c>>},
                             !.ret = WsReturn("move_connection", to, "none")]
                     ELSE [workspaces EXCEPT
                             !.connections = removed,
                             !.ret = WsReturn("move_connection", to, "Database")]
    /\ WsFrame

\* remove_connection_from_all
WsRemoveConnectionFromAll(c) ==
    /\ workspaces.initialized
    /\ workspaces' = [workspaces EXCEPT
                         !.connections = {wc \in @ : wc[2] # c},
                         !.ret = WsReturn("remove_connection_from_all", "none", "none")]
    /\ WsFrame

\* clear_all: DELETE FROM workspace_connections, then
\* DELETE FROM workspaces WHERE is_default = 0
WsClearAll ==
    /\ workspaces.initialized
    /\ workspaces' = [workspaces EXCEPT
                         !.connections = {},
                         !.rows = delete_where(@, {i \in DOMAIN @ : ~@[i].is_default}),
                         !.ret = WsReturn("clear_all", "none", "none")]
    /\ WsFrame

NextWorkspaces ==
    \/ WsInitialize
    \/ \E name \in WorkspaceNames : WsCreate(name)
    \/ \E id \in WorkspaceIds, name \in WorkspaceNames : WsUpdate(id, name)
    \/ \E id \in WorkspaceIds : WsDelete(id)
    \/ \E id \in WorkspaceIds, c \in ConnectionIds : WsAddConnection(id, c)
    \/ \E id \in WorkspaceIds, c \in ConnectionIds : WsRemoveConnection(id, c)
    \/ \E c \in ConnectionIds, from, to \in WorkspaceIds : WsMoveConnection(c, from, to)
    \/ \E c \in ConnectionIds : WsRemoveConnectionFromAll(c)
    \/ WsClearAll

\* the storage does not depend on the connector: one connector is fixed
InitWorkspaces == Init /\ driver = "MySQL"

SpecWorkspaces == InitWorkspaces /\ [][NextWorkspaces]_vars

----------------------------------------------------------------------------
(* Properties *)

\* idle duration of an entry of the pool map, measured from time t
Idle(d, t) == duration_since(t, pools[d].last_used)

\* Pool::close() has been called on pool p
IsClosed(p) == sqlx_pools[p].closed

\* a sweep is still to come within the modelled time
SweepAhead == next_tick <= now \/ next_tick + TimeStep <= MaxTime

\* C1: a sweep pass ends with no non-default entry left that was idle for more
\* than POOL_TTL at the pass's clock sample, the pool of every entry removed
\* from the map is closed in the same step, and a non-default entry idle for
\* more than POOL_TTL is eventually removed unless a lookup refreshes it.
C1_SweepEvictsIdle ==
    /\ [][(sweep_pc = "evicting" /\ sweep_pc' = "sleep")
            => \A d \in DOMAIN pools :
                 d # default_database => Idle(d, sweep_now) <= POOL_TTL]_vars
    /\ [][\A d \in DOMAIN pools \ DOMAIN pools' : sqlx_pools'[pools[d].pool].closed]_vars
    /\ \A d \in Databases :
         (d \in DOMAIN pools /\ d # default_database /\ Idle(d, now) > POOL_TTL
            /\ SweepAhead)
         ~> (d \notin DOMAIN pools \/ Idle(d, now) <= POOL_TTL)

\* C1 witness: an entry idle for more than POOL_TTL has just been removed and closed
C1_Witness ==
    /\ sweep_pc = "evicting"
    /\ \E p \in 1..Len(sqlx_pools) :
         /\ IsClosed(p)
         /\ sqlx_pools[p].database # default_database
         /\ sqlx_pools[p].database \notin DOMAIN pools
    /\ ~closed /\ close_pc = "idle"
    /\ sweep_now > POOL_TTL

\* C2: the pool map of a PostgreSQL connector always holds the default database's entry
C2_DefaultEntryKept ==
    driver = "PostgreSQL" =>
        /\ default_database = "postgres"
        /\ default_database \in DOMAIN pools

\* C2 witness: a sweep has collected while the default entry was idle for more
\* than POOL_TTL and left it alone
C2_Witness ==
    /\ sweep_pc = "evicting"
    /\ default_database \in DOMAIN pools
    /\ Idle(default_database, sweep_now) > POOL_TTL
    /\ default_database \notin to_evict

\* C3: an entry leaves the map only during a sweep pass, and only if it is not
\* the default entry and was idle for more than POOL_TTL at the pass's clock sample
C3_EvictOnlyIdle ==
    [][\A d \in DOMAIN pools \ DOMAIN pools' :
          /\ sweep_pc = "evicting"
          /\ d # default_database
          /\ Idle(d, sweep_now) > POOL_TTL]_vars

\* C3 witness: the sweep holds the lock over an entry that a lookup refreshed
\* after the sweep sampled the clock, and has not selected it
C3_Witness ==
    /\ sweep_pc = "evicting"
    /\ \E d \in DOMAIN pools :
         /\ d # default_database
         /\ pools[d].last_used > sweep_now
         /\ d \notin to_evict

\* a step in which caller c's get_pool returns from the fast path
HitStep(c) == clients[c].pc = "idle" /\ clients'[c].pc = "running"

\* a step in which caller c's get_pool stores its new pool and returns
InsertStep(c) == clients[c].pc = "inserting" /\ clients'[c].pc = "running"

\* C4: a lookup that finds an entry returns that entry's pool, which is the pool
\* the previous lookup of the same name returned unless the entry was evicted in
\* between; it constructs no pool, leaves the keys and the other entries alone
\* and sets the entry's timestamp to the time of the lookup
C4_HitReusesPool ==
    [][\A c \in Clients : HitStep(c) =>
          LET d == clients'[c].db IN
            /\ d \in DOMAIN pools
            /\ clients'[c].pool = pools[d].pool
            /\ last_ret[d] # NoPool => clients'[c].pool = last_ret[d]
            /\ sqlx_pools' = sqlx_pools
            /\ DOMAIN pools' = DOMAIN pools
            /\ pools'[d] = PoolEntry(pools[d].pool, now)
            /\ \A x \in DOMAIN pools \ {d} : pools'[x] = pools[x]]_vars

\* C4 witness: two callers hold the default pool, the later lookup made at a
\* later time than construction, and the entry carries that time
C4_Witness ==
    /\ driver = "PostgreSQL"
    /\ \A c \in Clients :
         /\ clients[c].pc = "running"
         /\ clients[c].db = default_database
         /\ clients[c].pool = pools[default_database].pool
    /\ last_ret[default_database] = pools[default_database].pool
    /\ now > 0
    /\ pools[default_database].last_used = now

\* C5: a miss that connected stores an entry for its name holding the new pool
\* and returns that pool; the map grows by exactly one entry and every entry
\* that was there is unchanged
C5_MissAddsOneEntry ==
    [][\A c \in Clients : InsertStep(c) =>
          LET d == clients[c].db
              p == clients[c].pool IN
            /\ clients'[c].pool = p
            /\ d \in DOMAIN pools'
            /\ pools'[d] = PoolEntry(p, clients[c].ts)
            /\ Cardinality(DOMAIN pools') = Cardinality(DOMAIN pools) + 1
            /\ \A x \in DOMAIN pools : pools'[x] = pools[x]]_vars

\* pool p is open and is referenced neither by the map nor by a pending insert
Untracked(p) ==
    /\ p \in 1..Len(sqlx_pools)
    /\ ~IsClosed(p)
    /\ \A d \in DOMAIN pools : pools[d].pool # p
    /\ \A c \in Clients : ~(clients[c].pc = "inserting" /\ clients[c].pool = p)

\* C6: every open pool of a PostgreSQL connector is referenced by a map entry
\* or is about to be stored by the lookup that constructed it
C6_NoPoolLeak ==
    driver = "PostgreSQL" => \A p \in 1..Len(sqlx_pools) : ~Untracked(p)

\* C7: a miss that stores its pool over an entry another miss stored meanwhile
\* replaces that entry's pool; the replaced pool is in no entry, is not closed
\* by that step, and an open pool that no entry and no pending insert refers to
\* stays open and unreferenced for ever
C7_RaceLeavesUntrackedPool ==
    /\ [][\A c \in Clients : (InsertStep(c) /\ clients[c].db \in DOMAIN pools) =>
            LET d == clients[c].db
                old == pools[d].pool
                new == clients[c].pool IN
              /\ old # new
              /\ DOMAIN pools' = DOMAIN pools
              /\ pools'[d].pool = new
              /\ \A x \in DOMAIN pools' : pools'[x].pool # old
              /\ sqlx_pools'[old].closed = sqlx_pools[old].closed]_vars
    /\ [][driver = "PostgreSQL" =>
            \A p \in 1..Len(sqlx_pools) : Untracked(p) => Untracked(p)']_vars

\* C7 witness: both lookups have finished, the map holds one open pool for the
\* name and the other pool constructed for it is open and in no entry
C7_Witness ==
    /\ driver = "PostgreSQL"
    /\ \A c \in Clients : clients[c].pc = "idle"
    /\ \E p \in 1..Len(sqlx_pools) :
         /\ Untracked(p)
         /\ sqlx_pools[p].database \in DOMAIN pools
         /\ ~IsClosed(pools[sqlx_pools[p].database].pool)
    /\ ~closed

\* C8: once close() has returned, the evictor starts no further pass
C8_CloseStopsSweep ==
    [][closed => ~(sweep_pc = "sleep" /\ sweep_pc' = "sampled")]_vars

\* a step in which a close() call returns
CloseReturnStep ==
    \/ close_pc = "closing" /\ close_pc' = "idle"
    \/ driver = "MySQL" /\ ~closed /\ closed'

\* C9: when close() returns, every pool in the pool map is closed, and so is
\* the one pool of a MySQL connector
C9_CloseClosesAll ==
    [][CloseReturnStep =>
          /\ \A d \in DOMAIN pools' : sqlx_pools'[pools'[d].pool].closed
          /\ driver = "MySQL" => sqlx_pools'[1].closed]_vars

\* C9 witness: close() has returned on a quiet connector whose map holds the
\* default and a non-default entry, both closed
C9_Witness ==
    /\ closed
    /\ close_pc = "idle"
    /\ sweep_pc = "sleep"
    /\ \A c \in Clients : clients[c].pc = "idle"
    /\ Cardinality(DOMAIN pools) = 2
    /\ \A d \in DOMAIN pools : IsClosed(pools[d].pool)

\* C10: after close() has returned the connector holds no open pool
C10_CloseIsFinal ==
    closed => \A d \in DOMAIN pools : IsClosed(pools[d].pool)

----------------------------------------------------------------------------
\* every pool the map holds (the single pool, for MySQL) is closed
AllClosed ==
    /\ \A d \in DOMAIN pools : IsClosed(pools[d].pool)
    /\ driver = "MySQL" => IsClosed(1)

\* C11: close() is idempotent on both variants: a step of a close() call made
\* after a close() has returned and while every pool of the connector is closed
\* leaves the map entries and every pool's state as they were, and the
\* connector stays closed.
C11_CloseIdempotent ==
    [][(closed /\ AllClosed /\ (Close \/ MyClose))
        => (pools' = pools /\ sqlx_pools' = sqlx_pools /\ closed' /\ AllClosed')]_vars

\* a second close() is about to close a pool that is already closed
C11_Witness ==
    /\ closed
    /\ AllClosed
    /\ \/ close_pc = "closing" /\ close_left # {}
       \/ driver = "MySQL"

\* C12: the eviction sweep does not block query execution: while the sweep has
\* evicted pools to close, an idle caller's lookup of the default database
\* (an entry the sweep never removes) can go ahead without waiting for the
\* sweep to finish.
C12_SweepDoesNotBlockLookup ==
    \A c \in Clients :
        (driver = "PostgreSQL" /\ sweep_pc = "evicting" /\ to_evict # {}
            /\ clients[c].pc = "idle")
        => ENABLED GetPoolHit(c, default_database)

----------------------------------------------------------------------------
(* How a server reads a quoted identifier: from the opening quote to the first
   quote character that is not doubled; a doubled quote stands for one *)

RECURSIVE ScanQuoted(_, _, _)
ScanQuoted(t, q, acc) ==
    IF t = <<>> THEN [closed |-> FALSE, name |-> acc, rest |-> <<>>]
    ELSE IF Head(t) # q THEN ScanQuoted(Tail(t), q, Append(acc, Head(t)))
    ELSE IF Len(t) >= 2 /\ t[2] = q THEN ScanQuoted(Tail(Tail(t)), q, Append(acc, q))
    ELSE [closed |-> TRUE, name |-> acc, rest |-> Tail(t)]

\* what follows keyword kw in stmt, read as an identifier quoted with q
ReadIdentifier(stmt, kw, q) ==
    IF Len(stmt) > Len(kw) /\ SubSeq(stmt, 1, Len(kw)) = kw /\ stmt[Len(kw) + 1] = q
    THEN ScanQuoted(SubSeq(stmt, Len(kw) + 2, Len(stmt)), q, <<>>)
    ELSE [closed |-> FALSE, name |-> <<>>, rest |-> stmt]

\* stmt is kw followed by exactly one quoted identifier and nothing else
SingleIdentifier(stmt, kw, q) ==
    LET r == ReadIdentifier(stmt, kw, q) IN r.closed /\ r.rest = <<>>

Count(s, ch) == Cardinality({i \in 1..Len(s) : s[i] = ch})

\* C17: the MySQL context switch turns every database name, one holding a
\* backtick or a semicolon included, into a USE statement that is a single
\* well-formed backtick-quoted identifier reference.
C17_UseIsSingleIdentifier ==
    (driver = "MySQL" /\ built # <<>>) => SingleIdentifier(built, UseKeyword, Backtick)

\* C18: the PostgreSQL context switch sends SET search_path TO followed by the
\* name wrapped in one pair of double quotes with every double quote of the
\* name doubled, so the statement is a single quoted identifier that reads
\* back as the name.
C18_SearchPathQuoted ==
    (driver = "PostgreSQL" /\ built # <<>>) =>
        LET r == ReadIdentifier(built, SetSearchPathKeyword, DoubleQuote) IN
        /\ r.closed /\ r.rest = <<>>
        /\ r.name = ident
        /\ Len(built) = Len(SetSearchPathKeyword) + 2 + Len(ident) + Count(ident, DoubleQuote)
        /\ Count(built, DoubleQuote) = 2 + 2 * Count(ident, DoubleQuote)

\* the statement for a name with a double quote and a semicolon in it
C18_Witness ==
    /\ driver = "PostgreSQL"
    /\ ident = <<"a", DoubleQuote, ";">>
    /\ built = SetSearchPathKeyword
                \o <<DoubleQuote, "a", DoubleQuote, DoubleQuote, ";", DoubleQuote>>

----------------------------------------------------------------------------
\* C13: a MySQL connector owns exactly one pool from construction on: no
\* operation creates a second pool or removes the pool, the pool is open
\* until close() is called, there is no pool map to evict from and no sweep
\* ever runs.
C13_SinglePool ==
    driver = "MySQL" =>
        /\ Len(sqlx_pools) = 1
        /\ pools = <<>>
        /\ ~closed => ~IsClosed(1)
        /\ sweep_pc = "sleep" /\ to_evict = {} /\ next_tick = 0

\* both callers have run statements on the single pool, then it was closed
C13_Witness ==
    /\ driver = "MySQL"
    /\ clients["c1"].res = "ok"
    /\ clients["c2"].res = "err"
    /\ closed

----------------------------------------------------------------------------
(* Claims about execute_with_context *)

Texts(sent) == [i \in 1..Len(sent) |-> sent[i].text]

IsPrefix(a, b) == Len(a) <= Len(b) /\ SubSeq(b, 1, Len(a)) = a

Succeeded(call) == call.pc = "done" /\ call.result \in {"rows", "affected"}

\* the call has its pool
Selected(call) == call.pc \in {"fetch", "retry"} \/ (call.pc = "done" /\ call.sent # <<>>)

\* C14: on PostgreSQL execute_with_context runs on the pool of `database`
\* when one is given, which is then in the map, and on the default pool when
\* none is given; every statement of the call goes to that pool, whatever
\* `context` is.
C14_PoolOfDatabase ==
    \A c \in ExecClients :
        LET call == calls[c]
            target == IF call.database = NoDatabase THEN default_database ELSE call.database
        IN
        (driver = "PostgreSQL" /\ Selected(call)) =>
            /\ sqlx_pools[call.pool].database = target
            /\ target \in DOMAIN pools /\ pools[target].pool = call.pool
            /\ \A i \in 1..Len(call.sent) : call.sent[i].pool = call.pool

\* a call with a database that had no entry and with a context ran on the
\* pool made for that database
C14_Witness ==
    \E c \in ExecClients :
        /\ driver = "PostgreSQL"
        /\ Succeeded(calls[c])
        /\ calls[c].database = "app"
        /\ calls[c].context # NoContext
        /\ calls[c].pool = 2
        /\ Len(calls[c].sent) = 2

\* what a call with this statement and context sends when nothing fails
ExpectedStatements(drv, query, context) ==
    IF context = NoContext THEN <<query, query>>
    ELSE <<ContextStatement(drv, context[1]), query, query>>

\* C15: on MySQL the `database` argument is ignored: what a call sends and the
\* original_query and executed_query it returns are fixed by its statement
\* and its context alone, and everything goes to the single pool.
C15_DatabaseIgnored ==
    \A c \in ExecClients :
        LET call == calls[c] IN
        driver = "MySQL" =>
            /\ IsPrefix(Texts(call.sent), ExpectedStatements(driver, call.query, call.context))
            /\ \A i \in 1..Len(call.sent) : call.sent[i].pool = 1
            /\ Succeeded(call) =>
                  /\ call.original_query = Some(call.query)
                  /\ call.result_executed_query
                       = Some(executed_query(driver, call.context, call.query))

\* a MySQL call with a database and no context has returned rows
C15_Witness ==
    \E c \in ExecClients :
        /\ driver = "MySQL"
        /\ calls[c].database = "app"
        /\ calls[c].context = NoContext
        /\ calls[c].result = "rows"
        /\ Texts(calls[c].sent) = <<calls[c].query>>

\* C16: with a context exactly one context statement is sent, it is sent and
\* succeeds before the caller's statement, and if it fails the caller's
\* statement is never sent and the call returns the error; with no context
\* no context statement is sent.
C16_ContextStatementFirst ==
    \A c \in ExecClients :
        LET call == calls[c]
            sent == call.sent
        IN
        /\ call.context = NoContext =>
              \A i \in 1..Len(sent) : sent[i].text = call.query
        /\ call.context # NoContext =>
              /\ \A i \in 1..Len(sent) :
                    /\ i = 1 => sent[i].text = ContextStatement(driver, call.context[1])
                    /\ i > 1 => sent[i].text = call.query /\ sent[1].ok
              /\ (call.pc \in {"fetch", "retry"} \/ Succeeded(call)) =>
                    Len(sent) >= 1 /\ sent[1].ok
              /\ (Len(sent) >= 1 /\ ~sent[1].ok) =>
                    Len(sent) = 1 /\ call.pc = "done" /\ call.result = "err"

\* a context statement failed and the call returned the error
C16_Witness ==
    \E c \in ExecClients :
        /\ calls[c].context # NoContext
        /\ calls[c].pc = "done"
        /\ calls[c].result = "err"
        /\ Len(calls[c].sent) = 1
        /\ ~calls[c].sent[1].ok

\* C19: the context is sticky on the physical connection: a session's
\* context changes only when a context statement succeeds on it, nothing
\* resets it, so a later call with no context can run on a connection whose
\* context an earlier call set.
C19_ContextSticks ==
    [][\A p \in 1..MaxPools, k \in 1..MaxConns :
          session'[p][k] # session[p][k] =>
              \E c \in ExecClients :
                  /\ calls[c].pc = "pool" /\ calls'[c].pc = "fetch"
                  /\ calls[c].context # NoContext
                  /\ session'[p][k] = calls[c].context]_vars

\* a call with no context has run its statement in a session whose context
\* an earlier call had set
C19_Witness ==
    \E c \in ExecClients :
        /\ calls[c].context = NoContext
        /\ Succeeded(calls[c])
        /\ calls[c].sent[1].ctx # NoContext

\* C20: every successful execute_with_context result has original_query equal
\* to the caller's statement and executed_query equal to the statement when
\* there is no context, else to the context statement, a semicolon, a newline
\* and the statement; on the rows path and on the affected-rows path alike.
C20_ResultQueries ==
    \A c \in ExecClients :
        LET call == calls[c] IN
        Succeeded(call) =>
            /\ call.original_query = <<call.query>>
            /\ call.result_executed_query =
                 <<IF call.context = NoContext THEN call.query
                   ELSE ContextStatement(driver, call.context[1])
                        \o <<";", "\n">> \o call.query>>

\* a call with a context succeeded on the affected-rows path
C20_Witness ==
    \E c \in ExecClients :
        /\ calls[c].result = "affected"
        /\ calls[c].context = Some(<<"a", DoubleQuote>>)
        /\ Len(calls[c].result_executed_query[1]) > Len(calls[c].query)

----------------------------------------------------------------------------
(* Claims about extract_table_from_select *)

\* the statement starts with the word SELECT
IsSelect(s) == starts_with(to_uppercase(trim(s)), <<"S", "E", "L", "E", "C", "T">>)

C27_NoneUnlessSelect ==
    (~IsSelect(statement) \/ statement \in SelectsWithoutTable) => table = NoContext

----------------------------------------------------------------------------
(* Claims about value coercion *)

Coerced == value # NoValue

IsBinary == driver = "MySQL" /\ cell.type \in MyBinaryTypes

ClaimedFallback(c) ==
    IF TryGet(c, "String") THEN Decoded("string", "String")
    ELSE IF TryGet(c, "i64") THEN Decoded("number", "i64")
    ELSE IF TryGet(c, "i32") THEN Decoded("number", "i32")
    ELSE IF TryGet(c, "f64") THEN from_f64(c)
    ELSE IF TryGet(c, "bool") THEN Decoded("bool", "bool")
    ELSE IF TryGet(c, "DateTime") THEN Decoded("string", "DateTime")
    ELSE IF TryGet(c, "NaiveDateTime") THEN Decoded("string", "NaiveDateTime")
    ELSE IF TryGet(c, "Bytes") /\ Utf8Valid(c.bytes)
         THEN [json |-> "string", from |-> "from_utf8", text |-> from_utf8(c.bytes)]
    ELSE JsonNull

\* C29: for a type name the dispatch table has no entry for, coercion on
\* each backend returns the first successful decode in the order string,
\* integer, float, boolean, timestamp, raw bytes as UTF-8, and null when
\* none succeeds.
C29_FallbackOrder ==
    (Coerced /\ arm(driver, cell.type) = "fallback") =>
        /\ value.json = ClaimedFallback(cell).json
        /\ value.from = ClaimedFallback(cell).from
        /\ value.text = ClaimedFallback(cell).text

IsDecimal == arm(driver, cell.type) = "decimal"

\* C30: a fixed-precision value becomes a JSON string of the exact decimal
\* whenever exact decoding succeeds, a JSON number only when exact decoding
\* fails and float decoding succeeds, and null when both fail.
C30_DecimalExact ==
    (Coerced /\ IsDecimal) =>
        /\ TryGet(cell, "BigDecimal") => value.json = "string" /\ value.from = "BigDecimal"
        /\ value.json = "number" => ~TryGet(cell, "BigDecimal") /\ TryGet(cell, "f64")
        /\ (~TryGet(cell, "BigDecimal") /\ ~TryGet(cell, "f64")) => value = JsonNull

\* a decimal that decodes both ways was emitted as the exact string
C30_Witness ==
    /\ Coerced
    /\ IsDecimal
    /\ cell.ok = {"BigDecimal", "f64"}
    /\ value.json = "string"

----------------------------------------------------------------------------
(* the two attempts of execute *)

\* the call has returned
RunDone == run.pc = "done"

\* the attempts that failed
FailedAttempts == {i \in 1..Len(run.attempts) : run.attempts[i].error # "none"}

\* C21: the statement goes first as a row-returning query and a second time,
\* as an affected-rows statement, only if the first attempt failed; the call
\* returns an error exactly when both attempts failed, that error is the
\* second attempt's, and there is never a third attempt.
C21_TwoAttempts ==
    /\ Len(run.attempts) <= 2
    /\ run.attempts # <<>> => run.attempts[1].how = "fetch_all"
    /\ Len(run.attempts) = 2 =>
          run.attempts[1].error # "none" /\ run.attempts[2].how = "execute"
    /\ RunDone =>
          /\ run.attempts # <<>>
          /\ run.attempts[1].error # "none" => Len(run.attempts) = 2
          /\ run.result.status \in {"ok", "err"}
          /\ run.result.status = "err" <=> FailedAttempts = {1, 2}
          /\ run.result.status = "err" => run.result.error = run.attempts[2].error

\* both attempts have failed and the call has returned the error
C21_Witness ==
    RunDone /\ FailedAttempts = {1, 2} /\ run.result.status = "err"

\* the row-returning attempt succeeded with no row
ZeroRows ==
    RunDone /\ run.attempts[1].error = "none" /\ run.fetched.rows = <<>>

\* the names and types the catalog answered with, in its order
RECURSIVE CatalogColumns(_)
CatalogColumns(info) ==
    IF info = <<>> THEN <<>>
    ELSE IF Head(info).readable
         THEN <<[name |-> Head(info).name, data_type |-> Head(info).data_type,
                 nullable |-> TRUE]>> \o CatalogColumns(Tail(info))
    ELSE CatalogColumns(Tail(info))

C22_FailedLookup ==
    ZeroRows /\ run.lookups # <<>> /\ ~run.lookups[1].ok

\* C23: in a successful result every row has exactly as many values as
\* there are columns, the j-th value being the one of the j-th column; a
\* result of the affected-rows fallback has no columns and no rows.
C23_RowsMatchColumns ==
    RunDone /\ run.result.status = "ok" =>
        /\ \A i \in 1..Len(run.result.rows) :
              /\ Len(run.result.rows[i]) = Len(run.result.columns)
              /\ \A j \in 1..Len(run.result.columns) :
                    /\ run.result.columns[j].name = run.fetched.columns[j].name
                    /\ run.result.columns[j].data_type = run.fetched.rows[i][j].type
                    /\ run.result.rows[i][j] = value_to_json(driver, run.fetched.rows[i][j])
        /\ Len(run.result.rows) = Len(run.fetched.rows)
        /\ Len(run.attempts) = 2 => run.result.columns = <<>> /\ run.result.rows = <<>>

\* two rows of two columns have come back, one of them with a null
C23_Witness ==
    /\ RunDone /\ run.result.status = "ok"
    /\ Len(run.result.rows) = 2 /\ Len(run.result.columns) = 2
    /\ \E i \in 1..2, j \in 1..2 : run.result.rows[i][j] = JsonNull
    /\ \E i \in 1..2, j \in 1..2 : run.result.rows[i][j] # JsonNull

\* the fallback has succeeded
C23_Fallback ==
    RunDone /\ run.result.status = "ok" /\ Len(run.attempts) = 2
----------------------------------------------------------------------------
(* the connection registry *)

\* the step is a call of one of the commands that look a connection up
LooksUp == cmd'.op \in ConnectorCommands \cup {"get_connection"}

\* C24: execute_query, get_databases, get_schemas, get_tables and
\* get_columns called with a connection id that is not in the registry
\* return ConnectionNotFound, call no connector and leave the registry
\* unchanged; get_connection(id) succeeds exactly when id is in the registry.
C24_UnknownConnection ==
    [][LooksUp =>
        /\ cmd'.id \notin DOMAIN connections =>
              /\ cmd'.ret = [status |-> "err", error |-> "ConnectionNotFound", id |-> cmd'.id]
              /\ cmd'.calls = <<>>
              /\ connections' = connections
        /\ cmd'.op = "get_connection" =>
              /\ cmd'.ret.status = "ok" <=> cmd'.id \in DOMAIN connections
              /\ cmd'.ret.status = "ok" => cmd'.ret.id = cmd'.id
        /\ cmd'.id \in DOMAIN connections =>
              cmd'.ret.error # "ConnectionNotFound"]_vars

\* a command has been called with the id of a connection that was
\* disconnected, while another connection is in the registry
C24_Witness ==
    /\ cmd.op \in ConnectorCommands
    /\ cmd.id \in uuids \ DOMAIN connections
    /\ cmd.ret.error = "ConnectionNotFound"
    /\ DOMAIN connections # {}

\* C25: connect(config) makes one connection attempt; if constructing the
\* connector fails the error is returned, no id is added to the registry and
\* nothing is retried; if it succeeds exactly one fresh id is added, mapped
\* to the new connector, and every existing entry is unchanged.
C25_ConnectOnce ==
    [][cmd'.op = "connect" =>
        /\ Len(cmd'.attempts) = 1
        /\ cmd'.ret.status = "err" <=> ~cmd'.attempts[1].ok
        /\ cmd'.ret.status = "err" => connections' = connections /\ cmd'.ret.error = "Database"
        /\ cmd'.ret.status = "ok" =>
              /\ cmd'.ret.id \notin DOMAIN connections \cup uuids
              /\ DOMAIN connections' = DOMAIN connections \cup {cmd'.ret.id}
              /\ connections'[cmd'.ret.id].driver = cmd'.attempts[1].driver
              /\ \A i \in DOMAIN connections : connections'[i] = connections[i]]_vars

\* a connect has succeeded while another connection was in the registry
C25_Witness ==
    /\ cmd.op = "connect" /\ cmd.ret.status = "ok"
    /\ DOMAIN connections \ {cmd.ret.id} # {}
    /\ cmd.ret.id \in DOMAIN connections

\* a connect has failed
C25_Failed ==
    cmd.op = "connect" /\ cmd.ret.status = "err"
----------------------------------------------------------------------------
(* the schema operations *)

\* C31: get_columns reports the key classification of every column, on
\* either backend, as primary (PRI), unique (UNI) or absent, and passes no
\* other catalog key marker through.
C31_KeyClassification ==
    listing.op = "get_columns" =>
        \A i \in 1..Len(listing.items) :
            listing.items[i].key \in {Some("PRI"), Some("UNI"), NoContext}

\* MySQL's marker of a column in a non-unique index has reached the caller
C31_MulPassedThrough ==
    /\ listing.op = "get_columns" /\ driver = "MySQL"
    /\ \E i \in 1..Len(listing.items) : listing.items[i].key = Some("MUL")

\* the names of the answer that differ from both hidden names, in order
RECURSIVE WithoutHidden(_)
WithoutHidden(names) ==
    IF names = <<>> THEN <<>>
    ELSE IF Head(names) = information_schema \/ Head(names) = performance_schema
         THEN WithoutHidden(Tail(names))
    ELSE <<Head(names)>> \o WithoutHidden(Tail(names))

\* C32: MySQL's get_databases returns exactly the names the server reported
\* minus information_schema and performance_schema, matched by equality and
\* in the server's order; a name that contains a hidden name is kept.
C32_DenylistExact ==
    listing.op = "get_databases" =>
        /\ Len(listing.items) = Len(WithoutHidden(catalog.rows))
        /\ \A i \in 1..Len(listing.items) :
              listing.items[i].name = WithoutHidden(catalog.rows)[i]

\* a hidden name was dropped and a name containing one was kept
C32_Witness ==
    /\ listing.op = "get_databases"
    /\ \E i \in 1..Len(catalog.rows) : catalog.rows[i] = information_schema
    /\ \E i \in 1..Len(listing.items) :
          find(listing.items[i].name, information_schema) > 1
----------------------------------------------------------------------------
(* the query history *)

\* the entries an add finds once the expired ones are gone
Found == [d \in Days |-> IF d < history.clock - 30 THEN 0 ELSE history.entries[d]]

\* the entries an add called now leaves before it inserts
Remaining == cleanup(history.entries, history.clock)

\* C33: after any sequence of add, delete and clear_all calls the history
\* holds at most 1000 entries: an add that finds 1000 or more entries first
\* deletes the oldest ones, so that exactly 999 remain before the new entry
\* is inserted.
C33_HistoryBounded ==
    /\ Count_history(history.entries) <= 1000
    /\ Count_history(Found) >= 1000 =>
          /\ Count_history(Remaining) = 999
          /\ \A d \in Days : Remaining[d] <= Found[d]
          /\ \A d, e \in Days : d < e /\ Remaining[e] < Found[e] => Remaining[d] = 0
    /\ Count_history(Found) < 1000 => Remaining = Found

\* two adds have found a full history and each made room by deleting the
\* oldest entry
C33_Witness ==
    /\ history.clock = 60
    /\ history.entries[40] = 998 /\ history.entries[60] = 2
----------------------------------------------------------------------------
(* the context and the physical connection *)

\* C34: in execute_with_context with a context, the caller's statement runs
\* on the physical connection on which the context statement was executed,
\* and so under that context.
C34_SameConnection ==
    \A c \in ExecClients :
        LET call == calls[c] IN
        call.context # NoContext =>
            \A i \in 2..Len(call.sent) :
                /\ call.sent[i].conn = call.sent[1].conn
                /\ call.sent[i].ctx = call.context

\* the caller's statement has run in a session that has another context
\* than the one the call set
C34_OtherContext ==
    \E c \in ExecClients :
        /\ calls[c].context # NoContext
        /\ Succeeded(calls[c])
        /\ calls[c].sent[2].ctx # calls[c].context
----------------------------------------------------------------------------
(* the sweep and the operations that hold a pool *)

\* the operation of caller c holds pool p: its lookup returned p and its
\* statements are not yet through
Holds(c, p) == clients[c].pc = "running" /\ clients[c].pool = p

\* C35: the sweep never closes a pool that an operation is still using: a
\* pool handed out by a lookup stays open until the operation that obtained
\* it has finished, however long that operation runs.
C35_SweepSparesPoolInUse ==
    [][\A d \in DOMAIN pools :
          (sweep_pc = "evicting" /\ d \notin DOMAIN pools') =>
              \A c \in Clients : ~Holds(c, pools[d].pool)]_vars

\* an operation holds a pool that the sweep has evicted and closed
C35_ClosedUnderOperation ==
    \E c \in Clients :
        /\ clients[c].pc = "running"
        /\ sqlx_pools[clients[c].pool].closed
        /\ clients[c].db \notin DOMAIN pools
        /\ ~closed /\ close_pc = "idle"
----------------------------------------------------------------------------
(* a miss whose pool construction fails *)

\* the step is the failure of the construction caller c waits for
FailedMiss(c) == clients[c].pc = "connecting" /\ clients'[c].pc = "idle"

\* the call of c has got the error of get_pool
PoolError(c) ==
    /\ calls[c].pc = "done" /\ calls[c].result = "err"
    /\ calls[c].pool = NoPool /\ calls[c].sent = <<>>

\* a call of c that is about to look up a name the map does not hold
AboutToMiss(c) ==
    /\ driver = "PostgreSQL"
    /\ calls[c].pc = "pool" /\ clients[c].pc = "idle" /\ clients[c].res = "none"
    /\ TargetDatabase(calls[c].database, default_database) \notin DOMAIN pools

\* C37: a miss whose pool construction fails returns the error to the
\* caller, inserts no entry and leaves the pool map and every pool
\* unchanged; a later lookup of the same name is again a miss that makes a
\* new attempt.
C37_FailedMissLeavesNoTrace ==
    /\ [][\A c \in ExecClients :
            /\ FailedMiss(c) =>
                  /\ clients'[c].res = "err"
                  /\ pools' = pools
                  /\ sqlx_pools' = sqlx_pools
                  /\ clients[c].db \notin DOMAIN pools'
            /\ (clients[c].res = "err" /\ calls[c].pc = "pool" /\ calls'[c] # calls[c]) =>
                  PoolError(c)']_vars
    /\ [](\A c \in ExecClients :
            AboutToMiss(c) =>
                ENABLED GetPoolMiss(c, TargetDatabase(calls[c].database, default_database)))

\* a call has returned the error of a failed construction and the name is
\* still not in the map
C37_Witness ==
    \E c \in ExecClients :
        /\ PoolError(c)
        /\ calls[c].database = "app"
        /\ "app" \notin DOMAIN pools
----------------------------------------------------------------------------
(* C36: no interleaving of lookups (hit or miss), sweep passes and close()
   on one connector deadlocks.  An entry's last_used lock is only ever held
   by a task that holds the map lock (a lookup holds it for reading, the
   sweep reads last_used while it holds it for writing), and, the backend
   answering every connect and every close, every lookup, sweep pass and
   close that has started comes to its end. *)

\* a lookup holds d's last_used lock
Stamping(c, d) == locks.last_used[d] = c

LockOrder ==
    /\ \A d \in Databases :
          locks.last_used[d] # "none" =>
              locks.last_used[d] \in LockClients /\ locks.last_used[d] \in locks.readers
    /\ locks.pc["sweep"] = "collecting" =>
          /\ locks.writer = "sweep"
          /\ \A d \in Databases : locks.last_used[d] = "none"
    /\ locks.writer # "none" => locks.readers = {}

C36_NoDeadlock ==
    /\ [](LockOrder)
    /\ \A t \in Tasks : (locks.pc[t] # "idle") ~> (locks.pc[t] = "idle")

\* a lookup stamps an entry under the read lock while close() reads the map
\* too, the sweep waits for the write lock and a second lookup behind it
C36_Witness ==
    /\ \E d \in Databases : Stamping("c1", d)
    /\ locks.pc["close"] = "closing"
    /\ locks.queue = <<"sweep", "c2">>

----------------------------------------------------------------------------
(* C38: when disconnect(id) returns for an id in the registry, id is no
   longer in the registry (get_connection(id) yields ConnectionNotFound),
   close() was called on the connector it mapped to exactly once, and every
   other entry is unchanged.  A further disconnect(id), as the second of two
   concurrent calls is once the first has released the write guard, finds
   nothing and closes nothing; an id once handed out is never registered
   again, so the connector is closed once. *)

DisconnectStep == cmd'.op = "disconnect" /\ cmd' # cmd

C38_DisconnectOnce ==
    [][/\ DisconnectStep /\ cmd'.id \in DOMAIN connections =>
            /\ cmd'.ret = Ok(0)
            /\ cmd'.id \notin DOMAIN connections'
            /\ get_connection(connections', cmd'.id) = Err("ConnectionNotFound", cmd'.id)
            /\ cmd'.calls = <<[id |-> cmd'.id, method |-> "close"]>>
            /\ \A i \in DOMAIN connections \ {cmd'.id} :
                  i \in DOMAIN connections' /\ connections'[i] = connections[i]
            /\ DOMAIN connections' \subseteq DOMAIN connections
       /\ DisconnectStep /\ cmd'.id \notin DOMAIN connections =>
            /\ cmd'.ret = Ok(0)
            /\ cmd'.calls = <<>>
            /\ connections' = connections
       /\ \A i \in uuids \ DOMAIN connections : i \notin DOMAIN connections']_vars

\* a registered connector was disconnected and closed; another one stays
C38_Witness ==
    /\ cmd.op = "disconnect"
    /\ cmd.calls = <<[id |-> cmd.id, method |-> "close"]>>
    /\ cmd.id \notin DOMAIN connections
    /\ DOMAIN connections # {}

\* the second disconnect of an id found nothing to close
C38_SecondCall ==
    /\ cmd.op = "disconnect"
    /\ cmd.id \in uuids
    /\ cmd.calls = <<>>

----------------------------------------------------------------------------
(* C39: once the workspace schema is initialized the default workspace (id
   default, is_default set) exists in every reachable state and is the only
   default one.  delete on it returns a Validation error and leaves it and
   its connections in place, clear_all deletes the non-default workspaces
   and no other, and create makes a workspace that is not default. *)

DefaultWorkspaces(rows) == {i \in DOMAIN rows : rows[i].is_default}

\* a call of the named operation has returned
WsStep(op) == workspaces' # workspaces /\ workspaces'.ret.op = op

C39_DefaultWorkspaceStays ==
    /\ [](workspaces.initialized =>
            DefaultWorkspaces(workspaces.rows) = {DEFAULT_WORKSPACE_ID})
    /\ [][/\ WsStep("delete") /\ workspaces'.ret.id = DEFAULT_WORKSPACE_ID =>
                /\ workspaces'.ret.error = "Validation"
                /\ workspaces'.rows = workspaces.rows
                /\ workspaces'.connections = workspaces.connections
          /\ WsStep("clear_all") =>
                /\ DOMAIN workspaces'.rows = DefaultWorkspaces(workspaces.rows)
                /\ \A i \in DOMAIN workspaces'.rows : workspaces'.rows[i] = workspaces.rows[i]
          /\ WsStep("create") =>
                /\ workspaces'.ret.id \notin DOMAIN workspaces.rows
                /\ workspaces'.ret.id \in DOMAIN workspaces'.rows
                /\ ~workspaces'.rows[workspaces'.ret.id].is_default
                /\ \A i \in DOMAIN workspaces.rows : workspaces'.rows[i] = workspaces.rows[i]]_vars

\* delete was refused for the default workspace, which has a connection and
\* stands beside another workspace
C39_Witness ==
    /\ workspaces.ret = WsReturn("delete", DEFAULT_WORKSPACE_ID, "Validation")
    /\ <<DEFAULT_WORKSPACE_ID, "a">> \in workspaces.connections
    /\ DOMAIN workspaces.rows # {DEFAULT_WORKSPACE_ID}

\* clear_all ran on a storage that had held other workspaces
C39_Cleared ==
    /\ workspaces.ret.op = "clear_all"
    /\ workspaces.used # {}
    /\ DOMAIN workspaces.rows = {DEFAULT_WORKSPACE_ID}

====
